---- MODULE Spec2Model ----
(***************************************************************************)
(* EMR-Adapter: the retry handler, the session manager and the WellSky     *)
(* adapter (authenticate / postVisitNote) as state machines.               *)
(*                                                                         *)
(* Strings the code searches with String.includes are sequences of tokens  *)
(* (words); includes is contiguous-subsequence search on them.             *)
(***************************************************************************)
EXTENDS Integers, Sequences, FiniteSets, TLC

VARIABLES
    config,            \* RetryHandler.config: [maxAttempts, backoffMs, retryableErrors]
    isRetryableError,  \* the optional predicate argument of execute
    rhPc,              \* position of the running execute call
    attempt,           \* execute: let attempt
    lastError,         \* execute: let lastError
    invocations,       \* number of times execute has called fn
    outcomes,          \* what each finished invocation of the harness fn did, in order
    sleeps,            \* the delays execute has slept, in order
    rhResult,          \* what execute returned or threw
    session,           \* SessionManager.session
    sessionOps,        \* number of SessionManager calls made by the session harness
    merges,            \* session harness: number of updateCookies calls so far
    mergeBase,         \* session harness: the session before the last two updateCookies
    mergeMid,          \* session harness: the session before the last updateCookies
    mergeA,            \* session harness: the list merged before the last one
    mergeB,            \* session harness: the list merged last
    now,               \* the clock new Date() reads
    calls,             \* number of calls made on the adapter so far
    call,              \* the adapter call in progress, or the last one made
    pc,                \* the await the call in progress is suspended at
    local,             \* the locals of the call in progress
    requests,          \* the requests handed to fetch, in order, by authenticate
                       \* or by the running (or last) attempt of postVisitNote
    responses,         \* the responses fetch has resolved to for them, in order
    posts,             \* submission POSTs the postVisitNote call has sent
    authResult,        \* what authenticate returned or threw
    serviceResult,     \* what VisitNoteService.postVisitNote returned or threw
    sessionAtCall,     \* the session when the call was made
    lastCall,          \* the last call a harness made: operation, argument, the
                       \* state before it, the time, what it returned or threw
    sessionFile,       \* the file at SessionManager.sessionFilePath
    savedSession,      \* the session the last saveSession wrote down
    created,           \* the adapters AdapterFactory.create has returned, in order
    allocated,         \* number of objects constructed so far
    heap,              \* the session objects by identity, where adapters may hold
                       \* one and the same object
    tasks              \* the postVisitNote calls in progress on one adapter, where
                       \* calls may overlap: each call's position and locals

retryVars == <<config, isRetryableError, rhPc, attempt, lastError,
               invocations, outcomes, sleeps, rhResult>>

sessionVars == <<session, sessionOps, merges, mergeBase, mergeMid, mergeA, mergeB>>

adapterVars == <<now, calls, call, pc, local, requests, responses, posts, authResult,
                 serviceResult, sessionAtCall>>

auxVars == <<lastCall, sessionFile, savedSession, created, allocated, heap, tasks>>

vars == <<retryVars, sessionVars, adapterVars, auxVars>>

----------------------------------------------------------------------------
(* Bounds *)

MaxAttemptsLimit == 3

\* SessionManager calls in one run of the session harness
MaxSessionOps == 3

\* calls made on one adapter in one run
MaxCalls == 2

\* the clock runs from 0 to MaxTime
MaxTime == 1

\* adapters created in one run of the factory harness
MaxAdapters == 3

\* SessionManager calls and file writes in one run of the persistence harness
MaxPersistOps == 5

----------------------------------------------------------------------------
(* Strings *)

\* String.prototype.includes on token sequences
Includes(s, p) ==
    \E i \in 0..(Len(s) - Len(p)) : SubSeq(s, i + 1, i + Len(p)) = p

RECURSIVE Pow2(_)
Pow2(n) == IF n <= 0 THEN 1 ELSE 2 * Pow2(n - 1)

----------------------------------------------------------------------------
(* Errors *)

\* the value of an unassigned let
Undefined == [name |-> "undefined"]

\* new Error(message), thrown by the id-th invocation of the operation
RaisedError(message, id) == [name |-> "Error", message |-> message, id |-> id]

\* error?.message || String(error)
ErrorMessage(error) ==
    IF error.message # <<>> THEN error.message ELSE <<error.name>>

----------------------------------------------------------------------------
(* RetryHandler *)

\* while (attempt < this.config.maxAttempts)
LoopContinues(att, cfg) == att < cfg.maxAttempts

\* if (attempt >= this.config.maxAttempts) break
AttemptLimitReached(att, cfg) == att >= cfg.maxAttempts

\* a request timeout is not taken for a network failure
IsNetworkErrorNoTimeout(error) ==
    \/ Includes(error.message, <<"network">>)
    \/ Includes(error.message, <<"ECONNREFUSED">>)
    \/ Includes(error.message, <<"ENOTFOUND">>)

\* static isNetworkError(error)
IsNetworkError(error) ==
    \/ Includes(error.message, <<"timeout">>)
    \/ Includes(error.message, <<"network">>)
    \/ Includes(error.message, <<"ECONNREFUSED">>)
    \/ Includes(error.message, <<"ENOTFOUND">>)

\* static isServerError(status)
IsServerError(status) == status >= 500 /\ status < 600

\* static isAuthError(status)
IsAuthError(status) == status = 401 \/ status = 403

\* every failure is taken for a retryable one
HandleRetryPredicateAcceptsAll(error) == TRUE

\* the predicate BaseAdapter.handleRetry hands to execute
HandleRetryPredicate(error) ==
    \/ IsNetworkError(error)
    \/ /\ "status" \in DOMAIN error
       /\ error.status # 0
       /\ IsServerError(error.status)

\* isRetryableError(error): the predicate of handleRetry, or a caller's
\* predicate given by the messages it accepts
PredicateVerdict(pred, error) ==
    IF pred.by = "handleRetry"
      THEN HandleRetryPredicate(error)
      ELSE ErrorMessage(error) \in pred.accepts

\* the predicate consulted with its verdict inverted
PredicateRejectsInverted(pred, error) ==
    pred.present /\ PredicateVerdict(pred, error)

\* isRetryableError && !isRetryableError(error)
PredicateRejects(pred, error) ==
    pred.present /\ ~PredicateVerdict(pred, error)

\* only the first configured pattern is tried
ShouldRetryFirstPatternOnly(cfg, error) ==
    /\ Len(cfg.retryableErrors) >= 1
    /\ Includes(ErrorMessage(error), cfg.retryableErrors[1])

\* this.config.retryableErrors.some(pattern => errorMessage.includes(pattern))
ShouldRetry(cfg, error) ==
    \E k \in 1..Len(cfg.retryableErrors) :
        Includes(ErrorMessage(error), cfg.retryableErrors[k])

\* the pattern list consulted even when a predicate was supplied
PatternRejectsAlways(cfg, pred, error) == ~ShouldRetry(cfg, error)

\* !shouldRetry && !isRetryableError
PatternRejects(cfg, pred, error) ==
    ~ShouldRetry(cfg, error) /\ ~pred.present

\* the exponent taken from the attempt number itself
BackoffDelayOffByOne(cfg, att) == cfg.backoffMs * Pow2(att)

\* this.config.backoffMs * Math.pow(2, attempt - 1)
BackoffDelay(cfg, att) == cfg.backoffMs * Pow2(att - 1)

\* a synthetic wrapper in place of the last failure
ExhaustedErrorWrapped(last) ==
    [name |-> "Error", message |-> <<"Max", "retries", "exceeded">>, id |-> 0]

\* throw lastError, after the loop
ExhaustedError(last) == last

\* the catch block of execute: what happens after fn rejected with error,
\* attempt being the counter before the increment
CatchOutcome(cfg, pred, att, error) ==
    LET a == att + 1 IN
    IF AttemptLimitReached(a, cfg)
      THEN [next |-> "break", attempt |-> a, delay |-> 0]
    ELSE IF PredicateRejects(pred, error)
      THEN [next |-> "throw", attempt |-> a, delay |-> 0]
    ELSE IF PatternRejects(cfg, pred, error)
      THEN [next |-> "throw", attempt |-> a, delay |-> 0]
    ELSE [next |-> "sleep", attempt |-> a, delay |-> BackoffDelay(cfg, a)]

----------------------------------------------------------------------------
(* SessionManager *)

\* private session: Session | null = null
NullSession == [null |-> TRUE]

\* tokens: {}
EmptyTokens == [k \in {} |-> ""]

\* a cookie string "name=value"; the name may be empty
Cookie(name, value) == [name |-> name, value |-> value]

\* const [name] = cookie.split('=')
CookieName(cookie) == cookie.name

\* Map.prototype.set(name, cookie) on an insertion-ordered map kept as the
\* sequence of its values
MapSet(map, cookie) ==
    IF \E i \in 1..Len(map) : CookieName(map[i]) = CookieName(cookie)
      THEN [i \in 1..Len(map) |->
              IF CookieName(map[i]) = CookieName(cookie) THEN cookie ELSE map[i]]
      ELSE Append(map, cookie)

\* cookies.forEach(cookie => { const [name] = ...; if (name) map.set(name, cookie) })
RECURSIVE SetEach(_, _)
SetEach(map, cookies) ==
    IF cookies = <<>> THEN map
    ELSE SetEach(IF CookieName(Head(cookies)) # ""
                   THEN MapSet(map, Head(cookies))
                   ELSE map,
                 Tail(cookies))

\* the incoming list replaces the stored one
MergeCookiesReplace(existing, incoming) == SetEach(<<>>, incoming)

\* an entry already stored wins over an incoming one of the same name
MergeCookiesKeepExisting(existing, incoming) == SetEach(SetEach(<<>>, incoming), existing)

\* existingCookies built from the session, overwritten by the incoming list;
\* Array.from(existingCookies.values())
MergeCookies(existing, incoming) == SetEach(SetEach(<<>>, existing), incoming)

\* updateCookies(cookies)
UpdateCookies(sess, cookies) ==
    IF sess # NullSession
      THEN [sess EXCEPT !.cookies = MergeCookies(sess.cookies, cookies)]
      ELSE [cookies |-> cookies, tokens |-> EmptyTokens]

\* the incoming map replaces the stored one
OverlayTokensReplace(old, new) == new

\* { ...this.session.tokens, ...tokens }
OverlayTokens(old, new) ==
    [k \in (DOMAIN old) \cup (DOMAIN new) |->
        IF k \in DOMAIN new THEN new[k] ELSE old[k]]

\* updateTokens(tokens)
UpdateTokens(sess, tokens) ==
    IF sess # NullSession
      THEN [sess EXCEPT !.tokens = OverlayTokens(sess.tokens, tokens)]
      ELSE [cookies |-> <<>>, tokens |-> tokens]

\* getCookies(): this.session?.cookies || []
GetCookies(sess) == IF sess = NullSession THEN <<>> ELSE sess.cookies

\* getTokens(): this.session?.tokens || {}
GetTokens(sess) == IF sess = NullSession THEN EmptyTokens ELSE sess.tokens

----------------------------------------------------------------------------
(* HTTPClient: requests as handed to fetch, responses as returned *)

\* private baseUrl = 'https://avasandbox.clearcareonline.com'
DefaultBaseUrl == "https://avasandbox.clearcareonline.com"

\* HTTPClient.request(url, options) as it reaches fetch: cookies defaults to
\* [], followRedirects to true
Request(method, url, cookies, followRedirects, form) ==
    [method |-> method, url |-> url, cookies |-> cookies,
     followRedirects |-> followRedirects, form |-> form]

\* the HTTPResponse object
Response(status, statusText, location, body, cookies) ==
    [status |-> status, statusText |-> statusText, location |-> location,
     body |-> body, cookies |-> cookies]

\* throw new Error(`Request timeout after ${timeout}ms`)
TimeoutError ==
    [name |-> "Error", message |-> <<"Request", "timeout", "after", "30000ms">>]

\* throw error: what fetch itself rejected with
FetchFailedError == [name |-> "TypeError", message |-> <<"fetch", "failed">>]

\* response bodies: text (a string of markup elements and words) or parsed JSON
TextBody(elems) == [type |-> "string", elems |-> elems]
JsonBody(success, errors) ==
    [type |-> "object", success |-> success, errors |-> errors]

Word(w) == [tag |-> "text", name |-> "", value |-> w, order |-> ""]
Input(name, value) ==
    [tag |-> "input", name |-> name, value |-> value, order |-> "name-value"]
InputValueFirst(name, value) ==
    [tag |-> "input", name |-> name, value |-> value, order |-> "value-name"]
Meta(name, content) ==
    [tag |-> "meta", name |-> name, value |-> content, order |-> "name-value"]

\* the words of a body, as String.includes and substring see them
BodyWords(body) ==
    IF body.type = "string"
      THEN [i \in 1..Len(body.elems) |->
              IF body.elems[i].tag = "text" THEN body.elems[i].value
              ELSE "<" \o body.elems[i].tag \o ">"]
      ELSE <<"{", "}">>

----------------------------------------------------------------------------
(* WellSkyAdapter.extractCSRFToken *)

\* null
NoToken == ""

\* the /i flag of the three patterns
LowerCase(name) ==
    CASE name = "CSRFMiddlewareToken" -> "csrfmiddlewaretoken"
      [] name = "CSRF_Token" -> "csrf_token"
      [] OTHER -> name

\* csrf[_-]?token
GenericTokenNames == {"csrf_token", "csrf-token", "csrftoken"}

\* <tag[^>]*name=["']NAME["'][^>]*(value|content)=["']([^"']+)["'] matches
\* the element: the name attribute first, then a non-empty value
MatchesPattern(elem, tag, names) ==
    /\ elem.tag = tag
    /\ LowerCase(elem.name) \in names
    /\ elem.order = "name-value"
    /\ elem.value # ""

\* html.match(pattern): the capture of the leftmost match, or null
FirstCapture(elems, tag, names) ==
    LET at == { i \in 1..Len(elems) : MatchesPattern(elems[i], tag, names) }
    IN  IF at = {} THEN NoToken
        ELSE elems[CHOOSE i \in at : \A j \in at : i <= j].value

\* the patterns also match an element that gives its value before its name
ExtractCSRFTokenAnyOrder(body) ==
    IF body.type # "string" THEN NoToken
    ELSE LET at == { i \in 1..Len(body.elems) :
                       /\ body.elems[i].tag \in {"input", "meta"}
                       /\ LowerCase(body.elems[i].name)
                            \in GenericTokenNames \cup {"csrfmiddlewaretoken"}
                       /\ body.elems[i].value # "" }
         IN  IF at = {} THEN NoToken
             ELSE body.elems[CHOOSE i \in at : \A j \in at : i <= j].value

\* extractCSRFToken(html)
ExtractCSRFToken(body) ==
    IF body.type # "string" \/ body.elems = <<>> THEN NoToken
    ELSE IF FirstCapture(body.elems, "input", {"csrfmiddlewaretoken"}) # NoToken
      THEN FirstCapture(body.elems, "input", {"csrfmiddlewaretoken"})
    ELSE IF FirstCapture(body.elems, "input", GenericTokenNames) # NoToken
      THEN FirstCapture(body.elems, "input", GenericTokenNames)
    ELSE FirstCapture(body.elems, "meta", GenericTokenNames)

----------------------------------------------------------------------------
(* WellSkyAdapter.transform *)

\* String(n).padStart(2, '0')
Pad2(n) == IF n < 10 THEN <<"0", ToString(n)>> ELSE <<ToString(n)>>

\* formatDate(date): MM/DD/YYYY
FormatDate(date) ==
    Pad2(date.month) \o <<"/">> \o Pad2(date.day) \o <<"/", ToString(date.year)>>

\* note.metadata?.[key] || fallback
MetadataOr(note, key, fallback) ==
    IF key \in DOMAIN note.metadata /\ note.metadata[key] # ""
      THEN note.metadata[key]
      ELSE fallback

\* the shift is taken from the tags when there are any
TransformShiftFromTags(note) ==
    [carelog |-> "",
     shift |-> MetadataOr(note, "tags", MetadataOr(note, "shift", note.visitId)),
     unavailability |-> "",
     date |-> FormatDate(note.visitDate),
     tags |-> MetadataOr(note, "tags", "38060"),
     note |-> note.note,
     show_with_billing |-> "on",
     show_with_payroll |-> "on",
     csrfmiddlewaretoken |-> NoToken]

\* transform(note)
Transform(note) ==
    [carelog |-> "",
     shift |-> MetadataOr(note, "shift", note.visitId),
     unavailability |-> "",
     date |-> FormatDate(note.visitDate),
     tags |-> MetadataOr(note, "tags", "38060"),
     note |-> note.note,
     show_with_billing |-> "on",
     show_with_payroll |-> "on",
     csrfmiddlewaretoken |-> NoToken]

\* formData.csrfmiddlewaretoken = csrfToken
WithToken(formData, csrfToken) ==
    [formData EXCEPT !.csrfmiddlewaretoken = csrfToken]

\* JSON.stringify(formData, null, 2), as words
FormWords(formData) ==
    <<formData.shift>> \o formData.date \o <<formData.tags>> \o formData.note
      \o <<"on", "on", formData.csrfmiddlewaretoken>>

----------------------------------------------------------------------------
(* EMRAdapterError and the errors the adapter raises *)

\* new EMRAdapterError(message, type, emrType, originalError)
EMRAdapterError(message, type, originalError) ==
    [name |-> "EMRAdapterError", message |-> message, type |-> type,
     emrType |-> "wellsky", originalError |-> originalError]

\* error instanceof EMRAdapterError
IsEMRAdapterError(error) == error.name = "EMRAdapterError"

\* the catch block of authenticate
AuthenticateCatch(error) ==
    IF IsEMRAdapterError(error) THEN error
    ELSE EMRAdapterError(<<"WellSky", "authentication", "error:">> \o error.message,
                         "AUTHENTICATION", error)

NoCsrfOnLoginPageError ==
    EMRAdapterError(<<"Failed", "to", "extract", "CSRF", "token", "from", "login", "page">>,
                    "AUTHENTICATION", Undefined)

MultiloginFailedError(response) ==
    EMRAdapterError(<<"WellSky", "multilogin", "failed">>, "AUTHENTICATION", response)

AuthenticationFailedError(response) ==
    EMRAdapterError(<<"WellSky", "authentication", "failed">>, "AUTHENTICATION", response)

NotAuthenticatedError ==
    EMRAdapterError(<<"Not", "authenticated.", "Please", "call", "authenticate()", "first.">>,
                    "AUTHENTICATION", Undefined)

SessionExpiredError(schedulingStatus, dashboardStatus) ==
    EMRAdapterError(<<"Session", "expired", "or", "invalid.", "Please", "login", "again.">>,
                    "AUTHENTICATION",
                    [schedulingStatus |-> schedulingStatus,
                     dashboardStatus |-> dashboardStatus])

NoCsrfTokenError ==
    EMRAdapterError(<<"Failed", "to", "obtain", "CSRF", "token.", "Please", "try",
                      "logging", "in", "again.">>,
                    "AUTHENTICATION", Undefined)

\* response.body.substring(0, 500), in words
BodyPreviewLength == 500

BodyPreview(body) ==
    LET w == BodyWords(body)
    IN  SubSeq(w, 1, IF Len(w) < BodyPreviewLength THEN Len(w) ELSE BodyPreviewLength)

ForbiddenError(response, formData, csrfToken) ==
    EMRAdapterError(
        <<"WellSky", "post", "visit", "note", "failed", "with", "403", "Forbidden.",
          "Response", "body:">> \o BodyPreview(response.body)
          \o <<"Request", "data:">> \o FormWords(formData),
        "AUTHENTICATION",
        [status |-> response.status, statusText |-> response.statusText,
         body |-> BodyPreview(response.body), requestData |-> formData,
         csrfToken |-> IF csrfToken # NoToken THEN "present" ELSE "missing"])

PostFailedError(response) ==
    EMRAdapterError(
        <<"WellSky", "post", "visit", "note", "failed", "with", "status",
          ToString(response.status)>> \o response.statusText,
        "EMR_SPECIFIC", response)

----------------------------------------------------------------------------
(* VisitNoteService *)

\* validation lets every record through
ValidateVisitNoteAcceptsAll(note) == Undefined

\* validateVisitNote(note): the Error it throws, or Undefined when it returns
ValidateVisitNote(note) ==
    LET Required(what) == [name |-> "Error", message |-> what \o <<"is", "required">>]
    IN  IF note.visitId = "" THEN Required(<<"visitId">>)
        ELSE IF note.patientId = "" THEN Required(<<"patientId">>)
        ELSE IF note.caregiverId = "" THEN Required(<<"caregiverId">>)
        ELSE IF note.note = <<>> THEN Required(<<"note", "content">>)
        ELSE IF note.visitDate = Undefined THEN Required(<<"visitDate">>)
        ELSE Undefined

\* every error of the adapter is wrapped anew
VisitNoteServiceCatchWrapsAll(error) ==
    EMRAdapterError(<<"Failed", "to", "post", "visit", "note:">> \o error.message,
                    "EMR_SPECIFIC", error)

\* the catch block of VisitNoteService.postVisitNote
VisitNoteServiceCatch(error) ==
    IF IsEMRAdapterError(error) THEN error
    ELSE EMRAdapterError(<<"Failed", "to", "post", "visit", "note:">> \o error.message,
                         IF "type" \in DOMAIN error /\ error.type # ""
                           THEN error.type ELSE "EMR_SPECIFIC",
                         error)

\* what the service hands its caller, given what the adapter handed the service
ServiceOutcome(result) ==
    IF result.kind = "thrown"
      THEN [kind |-> "thrown", error |-> VisitNoteServiceCatch(result.error)]
      ELSE result

----------------------------------------------------------------------------
(* BaseAdapter *)

\* new RetryHandler({ maxAttempts: 3, backoffMs: 1000, retryableErrors: [...] })
BaseAdapterRetryConfig ==
    [maxAttempts |-> 3, backoffMs |-> 1000,
     retryableErrors |-> << <<"timeout">>, <<"network">>, <<"ECONNREFUSED">> >>]

\* the closure handleRetry passes as isRetryableError
HandleRetry == [present |-> TRUE, by |-> "handleRetry", accepts |-> {}]

\* a session stays valid at the instant of its expiry
IsExpiredAfter(sess, time) ==
    IF sess = NullSession \/ "expiresAt" \notin DOMAIN sess
      THEN FALSE
      ELSE time > sess.expiresAt

\* SessionManager.isExpired()
IsExpired(sess, time) ==
    IF sess = NullSession \/ "expiresAt" \notin DOMAIN sess
      THEN FALSE
      ELSE time >= sess.expiresAt

\* every session counts as authenticated, the null one too
IsAuthenticatedAlways(sess, time) == TRUE

\* BaseAdapter.isAuthenticated()
IsAuthenticated(sess, time) == sess # NullSession /\ ~IsExpired(sess, time)

----------------------------------------------------------------------------
(* The vendor, as the adapter sees it: what each endpoint may answer *)

OK == <<"OK">>
Found == <<"Found">>
Forbidden == <<"Forbidden">>

\* an origin other than the default one
OtherBaseUrl == "https://other.example"

\* location.startsWith('http')
StartsWithHttp(location) ==
    location # <<>> /\ Head(location) \in {DefaultBaseUrl, OtherBaseUrl}

LoginPagePath == <<"/login", "/?next=", "/dashboard", "/live", "/">>
MultiloginPath == <<"/multilogin", "/">>
LoginPostPath(time) == <<"/login", "/?ts=", ToString(time)>>
DashboardPath == <<"/dashboard", "/live", "/">>
SchedulingPath == <<"/scheduling", "/">>
NoteAddPath == <<"/scheduling", "/note", "/add", "/">>

LoginPageResponses ==
    { Response(200, OK, <<>>,
               TextBody(<<Word("Login"), Input("CSRFMiddlewareToken", "tokA")>>),
               <<Cookie("csrftoken", "a"), Cookie("sid", "1")>>),
      Response(200, OK, <<>>,
               TextBody(<<Input("csrf_token", "tokB"), Meta("csrf-token", "tokC")>>),
               <<>>),
      Response(200, OK, <<>>,
               TextBody(<<Meta("csrf-token", "tokC")>>),
               <<Cookie("sid", "1")>>),
      Response(200, OK, <<>>,
               TextBody(<<Word("Login"), Input("username", "")>>),
               <<Cookie("sid", "1")>>),
      Response(200, OK, <<>>,
               TextBody(<<InputValueFirst("csrfmiddlewaretoken", "tokA")>>),
               <<>>),
      Response(200, OK, <<>>,
               TextBody(<<Input("csrfmiddlewaretoken", "tokA")>>),
               <<Cookie("sid", "0"), Cookie("sid", "1")>>),
      Response(503, <<"Service", "Unavailable">>, <<>>, TextBody(<<>>), <<>>) }

MultiloginResponses ==
    { Response(200, OK, <<>>, JsonBody(TRUE, 0), <<Cookie("sid", "2")>>),
      Response(200, OK, <<>>, JsonBody(FALSE, 1), <<>>),
      Response(200, OK, <<>>, JsonBody(TRUE, 1), <<>>),
      Response(200, OK, <<>>, TextBody(<<Word("ok")>>), <<>>),
      Response(403, Forbidden, <<>>, JsonBody(FALSE, 1), <<>>) }

LoginResponses ==
    { Response(302, Found, DashboardPath, TextBody(<<>>), <<Cookie("sid", "3")>>),
      Response(302, Found, <<DefaultBaseUrl>> \o DashboardPath, TextBody(<<>>), <<>>),
      Response(302, Found, LoginPagePath, TextBody(<<>>), <<>>),
      Response(302, Found, <<"/accounts", "/">>, TextBody(<<>>), <<>>),
      Response(302, Found, <<>>, TextBody(<<>>), <<>>),
      Response(301, <<"Moved">>, DashboardPath, TextBody(<<>>), <<>>),
      Response(200, OK, DashboardPath, TextBody(<<Word("Login")>>),
               <<Cookie("sid", "3")>>),
      Response(403, Forbidden, <<>>, TextBody(<<Word("denied")>>), <<>>) }

DashboardResponses ==
    { Response(200, OK, <<>>, TextBody(<<Word("Dashboard")>>), <<>>),
      Response(200, OK, <<>>, TextBody(<<Word("Dashboard")>>),
               <<Cookie("csrftoken", "b")>>) }

SchedulingResponses ==
    { Response(200, OK, <<>>,
               TextBody(<<Word("Scheduling"), Input("csrfmiddlewaretoken", "tokF")>>),
               <<Cookie("csrftoken", "f")>>),
      Response(200, OK, <<>>, TextBody(<<Word("Scheduling")>>), <<>>),
      Response(403, Forbidden, <<>>, TextBody(<<Word("denied")>>), <<>>),
      Response(302, Found, LoginPagePath, TextBody(<<>>), <<>>),
      Response(301, <<"Moved">>, LoginPagePath, TextBody(<<>>), <<>>) }

ProbeResponses ==
    { Response(200, OK, <<>>, TextBody(<<Word("Dashboard")>>), <<>>),
      Response(403, Forbidden, <<>>, TextBody(<<Word("denied")>>), <<>>),
      Response(302, Found, LoginPagePath, TextBody(<<>>), <<>>),
      Response(301, <<"Moved">>, LoginPagePath, TextBody(<<>>), <<>>) }

SubmitResponses ==
    { Response(200, OK, <<>>, TextBody(<<Word("saved")>>), <<Cookie("sid", "7")>>),
      Response(302, Found, SchedulingPath, TextBody(<<>>), <<>>),
      Response(403, Forbidden, <<>>, TextBody(<<Word("denied")>>), <<>>),
      Response(403, Forbidden, <<>>,
               TextBody(<<Word("session"), Word("timeout")>>), <<>>),
      Response(500, <<"Internal", "Server", "Error">>, <<>>,
               TextBody(<<Word("oops")>>), <<>>),
      Response(100, <<"Continue">>, <<>>, TextBody(<<>>), <<>>) }

\* how a request can fail without a response
NetworkErrors == {TimeoutError, FetchFailedError}

\* the callers' inputs
CredentialChoices ==
    { [username |-> "u", password |-> "p", baseUrl |-> ""],
      [username |-> "u", password |-> "p", baseUrl |-> OtherBaseUrl] }

NoMetadata == [k \in {} |-> ""]

VisitNotes ==
    { [visitId |-> "123", patientId |-> "p1", caregiverId |-> "c1",
       visitDate |-> [year |-> 2025, month |-> 12, day |-> 22],
       note |-> <<"ok">>, metadata |-> NoMetadata],
      [visitId |-> "9", patientId |-> "p2", caregiverId |-> "c2",
       visitDate |-> [year |-> 2025, month |-> 1, day |-> 5],
       note |-> <<"home", "network", "down">>,
       metadata |-> [k \in {"shift", "tags"} |->
                       IF k = "shift" THEN "266477302" ELSE "777"]] }

\* records with one required field empty
InvalidVisitNotes ==
    LET base == [visitId |-> "123", patientId |-> "p1", caregiverId |-> "c1",
                 visitDate |-> [year |-> 2025, month |-> 12, day |-> 22],
                 note |-> <<"ok">>, metadata |-> NoMetadata]
    IN  { [base EXCEPT !.visitId = ""],
          [base EXCEPT !.patientId = ""],
          [base EXCEPT !.caregiverId = ""],
          [base EXCEPT !.note = <<>>],
          [base EXCEPT !.visitDate = Undefined] }

\* sessions a caller installs with setSession (a session read back from disk)
InstalledSessions ==
    { [cookies |-> <<Cookie("sid", "9")>>, tokens |-> [k \in {"csrf"} |-> "tokS"]],
      [cookies |-> <<Cookie("sid", "9")>>, tokens |-> EmptyTokens],
      [cookies |-> <<Cookie("sid", "9")>>,
       tokens |-> [k \in {"csrf", "other"} |-> "tokS"],
       expiresAt |-> 1] }

----------------------------------------------------------------------------
(* Components a specification does not exercise stay as constructed *)

IdleSession ==
    /\ session = NullSession
    /\ sessionOps = 0
    /\ merges = 0
    /\ mergeBase = NullSession
    /\ mergeMid = NullSession
    /\ mergeA = <<>>
    /\ mergeB = <<>>

\* the locals of a call before it has assigned any
EmptyLocal ==
    [baseUrl |-> "", credentials |-> Undefined, csrfToken |-> "",
     schedulingStatus |-> 0, note |-> Undefined, formData |-> Undefined]

IdleAdapter ==
    /\ now = 0
    /\ calls = 0
    /\ call = "none"
    /\ pc = "idle"
    /\ local = EmptyLocal
    /\ requests = <<>>
    /\ responses = <<>>
    /\ posts = 0
    /\ authResult = [kind |-> "none"]
    /\ serviceResult = [kind |-> "none"]
    /\ sessionAtCall = NullSession

\* no harness call made, no session file, no adapter created
IdleAux ==
    /\ lastCall = [op |-> "none"]
    /\ sessionFile = [path |-> FALSE, exists |-> FALSE]
    /\ savedSession = NullSession
    /\ created = <<>>
    /\ allocated = 0
    /\ heap = <<>>
    /\ tasks = <<>>

IdleRetry ==
    /\ config = [maxAttempts |-> 0, backoffMs |-> 0, retryableErrors |-> <<>>]
    /\ isRetryableError = [present |-> FALSE, by |-> "messages", accepts |-> {}]
    /\ rhPc = "idle"
    /\ attempt = 0
    /\ lastError = Undefined
    /\ invocations = 0
    /\ outcomes = <<>>
    /\ sleeps = <<>>
    /\ rhResult = [kind |-> "none"]

----------------------------------------------------------------------------
(* The retry harness: execute(fn, isRetryableError?) with an arbitrary fn *)

HarnessMessages ==
    { <<"Request", "timeout", "after">>,
      <<"ECONNREFUSED">>,
      <<"boom">>,
      <<>> }

HarnessPatternLists ==
    { <<>>,
      << <<"timeout">> >>,
      << <<"timeout">>, <<"network">>, <<"ECONNREFUSED">> >>,
      << <<"Error">> >> }

HarnessPredicates ==
    { [present |-> FALSE, by |-> "messages", accepts |-> {}] }
      \cup { [present |-> TRUE, by |-> "messages", accepts |-> S] :
               S \in SUBSET { <<"Request", "timeout", "after">>, <<"boom">>, <<"Error">> } }

HarnessBackoffs == {100, 1000}

InitRetry ==
    /\ config \in [maxAttempts : 0..MaxAttemptsLimit,
                   backoffMs : HarnessBackoffs,
                   retryableErrors : HarnessPatternLists]
    /\ isRetryableError \in HarnessPredicates
    /\ rhPc = "idle"
    /\ attempt = 0
    /\ lastError = Undefined
    /\ invocations = 0
    /\ outcomes = <<>>
    /\ sleeps = <<>>
    /\ rhResult = [kind |-> "none"]
    /\ IdleSession
    /\ IdleAdapter
    /\ IdleAux

\* the head of the while loop: call fn again, or leave the loop and throw
LoopHead(att, last) ==
    IF LoopContinues(att, config)
      THEN /\ rhPc' = "awaitFn"
           /\ invocations' = invocations + 1
           /\ rhResult' = rhResult
      ELSE /\ rhPc' = "thrown"
           /\ invocations' = invocations
           /\ rhResult' = [kind |-> "thrown", error |-> ExhaustedError(last)]

Execute ==
    /\ rhPc = "idle"
    /\ LoopHead(attempt, lastError)
    /\ UNCHANGED <<config, isRetryableError, attempt, lastError, outcomes, sleeps>>

FnResolves ==
    /\ rhPc = "awaitFn"
    /\ rhPc' = "returned"
    /\ rhResult' = [kind |-> "returned", value |-> invocations]
    /\ outcomes' = Append(outcomes, [ok |-> TRUE, error |-> Undefined])
    /\ UNCHANGED <<config, isRetryableError, attempt, lastError, invocations, sleeps>>

FnRejects ==
    /\ rhPc = "awaitFn"
    /\ \E m \in HarnessMessages :
         LET error == RaisedError(m, invocations)
             c == CatchOutcome(config, isRetryableError, attempt, error)
         IN  /\ lastError' = error
             /\ attempt' = c.attempt
             /\ outcomes' = Append(outcomes, [ok |-> FALSE, error |-> error])
             /\ CASE c.next = "break" ->
                       /\ rhPc' = "thrown"
                       /\ rhResult' = [kind |-> "thrown", error |-> ExhaustedError(error)]
                       /\ sleeps' = sleeps
                  [] c.next = "throw" ->
                       /\ rhPc' = "thrown"
                       /\ rhResult' = [kind |-> "thrown", error |-> error]
                       /\ sleeps' = sleeps
                  [] c.next = "sleep" ->
                       /\ rhPc' = "sleeping"
                       /\ rhResult' = rhResult
                       /\ sleeps' = Append(sleeps, c.delay)
    /\ UNCHANGED <<config, isRetryableError, invocations>>

SleepElapses ==
    /\ rhPc = "sleeping"
    /\ LoopHead(attempt, lastError)
    /\ UNCHANGED <<config, isRetryableError, attempt, lastError, outcomes, sleeps>>

NextRetry ==
    \/ Execute /\ UNCHANGED <<sessionVars, adapterVars, auxVars>>
    \/ FnResolves /\ UNCHANGED <<sessionVars, adapterVars, auxVars>>
    \/ FnRejects /\ UNCHANGED <<sessionVars, adapterVars, auxVars>>
    \/ SleepElapses /\ UNCHANGED <<sessionVars, adapterVars, auxVars>>

SpecRetry == InitRetry /\ [][NextRetry]_vars

----------------------------------------------------------------------------
(* The session harness: SessionManager calls on a new SessionManager *)

HarnessCookies ==
    { Cookie("sid", "1"), Cookie("sid", "2"), Cookie("tok", "1"), Cookie("", "1") }

HarnessCookieLists ==
    {<<>>} \cup { <<c>> : c \in HarnessCookies }
           \cup { <<c, d>> : c \in HarnessCookies, d \in HarnessCookies }
           \cup { <<Cookie("sid", "1"), Cookie("tok", "1"), Cookie("sid", "2")>> }

HarnessTokenMaps ==
    { EmptyTokens, [k \in {"csrf"} |-> "t1"], [k \in {"csrf", "other"} |-> "t2"] }

InitSession == IdleSession /\ IdleRetry /\ IdleAdapter /\ IdleAux

CallUpdateCookies ==
    /\ sessionOps < MaxSessionOps
    /\ \E cookies \in HarnessCookieLists :
         /\ session' = UpdateCookies(session, cookies)
         /\ mergeBase' = mergeMid
         /\ mergeMid' = session
         /\ mergeA' = mergeB
         /\ mergeB' = cookies
         /\ lastCall' = [op |-> "updateCookies", arg |-> cookies, before |-> session,
                         time |-> now, result |-> [kind |-> "returned"]]
    /\ merges' = merges + 1
    /\ sessionOps' = sessionOps + 1
    /\ UNCHANGED <<retryVars, adapterVars, sessionFile, savedSession, created, allocated,
                   heap, tasks>>

CallUpdateTokens ==
    /\ sessionOps < MaxSessionOps
    /\ \E tokens \in HarnessTokenMaps :
         /\ session' = UpdateTokens(session, tokens)
         /\ lastCall' = [op |-> "updateTokens", arg |-> tokens, before |-> session,
                         time |-> now, result |-> [kind |-> "returned"]]
    /\ sessionOps' = sessionOps + 1
    /\ UNCHANGED <<merges, mergeBase, mergeMid, mergeA, mergeB, retryVars, adapterVars,
                   sessionFile, savedSession, created, allocated, heap, tasks>>

NextSession ==
    \/ CallUpdateCookies
    \/ CallUpdateTokens

SpecSession == InitSession /\ [][NextSession]_vars

----------------------------------------------------------------------------
(* The adapter: one WellSkyAdapter, its calls made one after the other *)

NoResult == [kind |-> "none"]
Returned(value) == [kind |-> "returned", value |-> value]
Thrown(error) == [kind |-> "thrown", error |-> error]

NoForm == [none |-> TRUE]

Init ==
    /\ config = BaseAdapterRetryConfig
    /\ isRetryableError = HandleRetry
    /\ rhPc = "idle"
    /\ attempt = 0
    /\ lastError = Undefined
    /\ invocations = 0
    /\ outcomes = <<>>
    /\ sleeps = <<>>
    /\ rhResult = NoResult
    /\ IdleSession
    /\ IdleAdapter
    /\ IdleAux

harnessVars == <<sessionOps, merges, mergeBase, mergeMid, mergeA, mergeB, auxVars>>

\* a new call starts: the locals and results of the previous one are gone
NewCall(name) ==
    /\ pc = "idle"
    /\ calls < MaxCalls
    /\ calls' = calls + 1
    /\ call' = name
    /\ sessionAtCall' = session
    /\ authResult' = NoResult
    /\ posts' = 0
    /\ attempt' = 0
    /\ lastError' = Undefined
    /\ outcomes' = <<>>
    /\ sleeps' = <<>>

\* time passes between calls
Tick ==
    /\ pc = "idle"
    /\ now < MaxTime
    /\ now' = now + 1
    /\ UNCHANGED <<retryVars, sessionVars, auxVars, calls, call, pc, local, requests,
                   responses, posts, authResult, serviceResult, sessionAtCall>>

\* sessionManager.setSession(session), as the CLI does with a stored session
SetSessionCall ==
    /\ NewCall("setSession")
    /\ \E sess \in InstalledSessions : session' = sess
    /\ requests' = <<>>
    /\ responses' = <<>>
    /\ local' = EmptyLocal
    /\ serviceResult' = NoResult
    /\ rhPc' = "idle"
    /\ invocations' = 0
    /\ rhResult' = NoResult
    /\ UNCHANGED <<config, isRetryableError, harnessVars, now, pc>>

(* authenticate *)

LoginForm(token, credentials) ==
    [csrfmiddlewaretoken |-> token, username |-> credentials.username,
     password |-> credentials.password, next |-> DashboardPath]

authFrame == <<retryVars, harnessVars, now, calls, call, posts, serviceResult,
               sessionAtCall>>

\* authenticate(credentials) up to the GET of the login page
AuthenticateCall ==
    /\ NewCall("authenticate")
    /\ \E credentials \in CredentialChoices :
         LET baseUrl == IF credentials.baseUrl # "" THEN credentials.baseUrl
                        ELSE DefaultBaseUrl
         IN  /\ local' = [EmptyLocal EXCEPT !.baseUrl = baseUrl,
                                            !.credentials = credentials]
             /\ requests' = <<Request("GET", <<baseUrl>> \o LoginPagePath,
                                      <<>>, TRUE, NoForm)>>
    /\ pc' = "awaitLoginPage"
    /\ responses' = <<>>
    /\ serviceResult' = NoResult
    /\ rhPc' = "idle"
    /\ invocations' = 0
    /\ rhResult' = NoResult
    /\ UNCHANGED <<config, isRetryableError, session, harnessVars, now>>

\* the login page arrives: merge its cookies, scrape the token, POST /multilogin/
LoginPageResponds ==
    /\ pc = "awaitLoginPage"
    /\ \E r \in LoginPageResponses :
         LET merged == UpdateCookies(session, r.cookies)
             csrfToken == ExtractCSRFToken(r.body)
         IN  /\ session' = merged
             /\ responses' = Append(responses, r)
             /\ IF csrfToken = NoToken
                  THEN /\ authResult' = Thrown(AuthenticateCatch(NoCsrfOnLoginPageError))
                       /\ pc' = "idle"
                       /\ UNCHANGED <<local, requests>>
                  ELSE /\ local' = [local EXCEPT !.csrfToken = csrfToken]
                       /\ requests' = Append(requests,
                            Request("POST", <<local.baseUrl>> \o MultiloginPath,
                                    GetCookies(merged), TRUE,
                                    LoginForm(csrfToken, local.credentials)))
                       /\ pc' = "awaitMultilogin"
                       /\ UNCHANGED authResult
    /\ UNCHANGED authFrame

\* !result.success || (result.errors && result.errors.length > 0)
MultiloginRejected(r) ==
    /\ r.status = 200
    /\ r.body.type = "object"
    /\ (~r.body.success \/ r.body.errors > 0)

\* the pre-login answer arrives: merge its cookies, POST /login/ without
\* following redirects
MultiloginResponds ==
    /\ pc = "awaitMultilogin"
    /\ \E r \in MultiloginResponses :
         LET merged == UpdateCookies(session, r.cookies)
         IN  /\ session' = merged
             /\ responses' = Append(responses, r)
             /\ IF MultiloginRejected(r)
                  THEN /\ authResult' = Thrown(AuthenticateCatch(MultiloginFailedError(r)))
                       /\ pc' = "idle"
                       /\ UNCHANGED requests
                  ELSE /\ requests' = Append(requests,
                            Request("POST", <<local.baseUrl>> \o LoginPostPath(now),
                                    GetCookies(merged), FALSE,
                                    LoginForm(local.csrfToken, local.credentials)))
                       /\ pc' = "awaitLogin"
                       /\ UNCHANGED authResult
    /\ UNCHANGED <<authFrame, local>>

\* a 302 to any location is taken for the login redirect
LoginSucceededAnyLocation(r) == r.status = 302

\* status === 302 and the location includes '/dashboard' or '/live'
LoginSucceeded(r) ==
    /\ r.status = 302
    /\ (Includes(r.location, <<"/dashboard">>) \/ Includes(r.location, <<"/live">>))

\* the login answer arrives: merge its cookies; on the post-login redirect GET
\* its target, otherwise fail
LoginResponds ==
    /\ pc = "awaitLogin"
    /\ \E r \in LoginResponses :
         LET merged == UpdateCookies(session, r.cookies)
             dashboardUrl == IF StartsWithHttp(r.location) THEN r.location
                             ELSE <<local.baseUrl>> \o r.location
         IN  /\ session' = merged
             /\ responses' = Append(responses, r)
             /\ IF LoginSucceeded(r)
                  THEN /\ requests' = Append(requests,
                            Request("GET", dashboardUrl, GetCookies(merged), TRUE, NoForm))
                       /\ pc' = "awaitDashboard"
                       /\ UNCHANGED authResult
                  ELSE /\ authResult' = Thrown(AuthenticateCatch(AuthenticationFailedError(r)))
                       /\ pc' = "idle"
                       /\ UNCHANGED requests
    /\ UNCHANGED <<authFrame, local>>

\* the redirect target arrives: merge its cookies, install and return the session
DashboardResponds ==
    /\ pc = "awaitDashboard"
    /\ \E r \in DashboardResponses :
         LET merged == UpdateCookies(session, r.cookies)
             sess == [cookies |-> GetCookies(merged),
                      tokens |-> [k \in {"csrf"} |-> local.csrfToken]]
         IN  /\ session' = sess
             /\ responses' = Append(responses, r)
             /\ authResult' = Returned(sess)
    /\ pc' = "idle"
    /\ UNCHANGED <<authFrame, local, requests>>

\* a request of authenticate fails without a response
AuthRequestFails ==
    /\ pc \in {"awaitLoginPage", "awaitMultilogin", "awaitLogin", "awaitDashboard"}
    /\ \E error \in NetworkErrors :
         authResult' = Thrown(AuthenticateCatch(error))
    /\ pc' = "idle"
    /\ UNCHANGED <<authFrame, session, local, requests, responses>>

(* postVisitNote *)

\* the stored token is never read
StoredCsrfNone(sess) == NoToken

\* this.sessionManager.getTokens().csrf
StoredCsrf(sess) ==
    IF "csrf" \in DOMAIN GetTokens(sess) THEN GetTokens(sess)["csrf"] ELSE NoToken

\* the result object of a successful submission
PostResult(note, formData, response, time) ==
    [success |-> TRUE, visitId |-> note.visitId, timestamp |-> time,
     request |-> formData, response |-> response.body]

\* only 403 is taken for session loss
SignalsSessionLossForbiddenOnly(status) == status = 403

\* status === 403 || status === 302
SignalsSessionLoss(status) == status = 403 \/ status = 302

\* every status below 400 counts as success, informational ones too
IsSuccessStatusBelow400(status) == status < 400

\* response.status >= 200 && response.status < 400
IsSuccessStatus(status) == status >= 200 /\ status < 400

postFrame == <<config, isRetryableError, outcomes, harnessVars, now, calls,
               call, sessionAtCall, authResult>>

\* fn starts (again): read the stored token and GET the scheduling page
StartAttempt(note, invoked) ==
    /\ rhPc' = "awaitFn"
    /\ invocations' = invoked + 1
    /\ local' = [EmptyLocal EXCEPT !.note = note,
                                   !.baseUrl = DefaultBaseUrl,
                                   !.csrfToken = StoredCsrf(session)]
    /\ requests' = <<Request("GET", <<DefaultBaseUrl>> \o SchedulingPath,
                             GetCookies(session), TRUE, NoForm)>>
    /\ responses' = <<>>
    /\ pc' = "awaitScheduling"

\* fn rejected with error: the catch block of execute decides
RejectAttempt(error) ==
    LET c == CatchOutcome(config, isRetryableError, attempt, error)
    IN  /\ lastError' = error
        /\ attempt' = c.attempt
        /\ invocations' = invocations
        /\ CASE c.next = "break" ->
                  /\ rhPc' = "thrown"
                  /\ rhResult' = Thrown(ExhaustedError(error))
                  /\ sleeps' = sleeps
                  /\ pc' = "idle"
             [] c.next = "throw" ->
                  /\ rhPc' = "thrown"
                  /\ rhResult' = Thrown(error)
                  /\ sleeps' = sleeps
                  /\ pc' = "idle"
             [] c.next = "sleep" ->
                  /\ rhPc' = "sleeping"
                  /\ rhResult' = rhResult
                  /\ sleeps' = Append(sleeps, c.delay)
                  /\ pc' = "sleeping"

\* VisitNoteService.postVisitNote(note) with a note that validateVisitNote
\* rejects: the adapter is not called
ValidationRejects ==
    /\ NewCall("validateVisitNote")
    /\ \E note \in VisitNotes \cup InvalidVisitNotes :
         /\ ValidateVisitNote(note) # Undefined
         /\ serviceResult' = Thrown(ValidateVisitNote(note))
         /\ local' = [EmptyLocal EXCEPT !.note = note]
    /\ requests' = <<>>
    /\ responses' = <<>>
    /\ rhResult' = NoResult
    /\ rhPc' = "idle"
    /\ invocations' = 0
    /\ UNCHANGED <<config, isRetryableError, session, harnessVars, now, pc>>

\* VisitNoteService.postVisitNote(note) with a note that passes validation:
\* postVisitNote(note) of the adapter up to the GET of the scheduling page, or
\* its rejection
PostVisitNoteCall ==
    /\ NewCall("postVisitNote")
    /\ \E note \in VisitNotes \cup InvalidVisitNotes :
         /\ ValidateVisitNote(note) = Undefined
         /\ IF ~IsAuthenticated(session, now)
              THEN /\ rhResult' = Thrown(NotAuthenticatedError)
                   /\ rhPc' = "idle"
                   /\ invocations' = 0
                   /\ local' = [EmptyLocal EXCEPT !.note = note]
                   /\ requests' = <<>>
                   /\ responses' = <<>>
                   /\ pc' = "idle"
              ELSE /\ rhResult' = NoResult
                   /\ StartAttempt(note, 0)
    /\ serviceResult' = ServiceOutcome(rhResult')
    /\ UNCHANGED <<config, isRetryableError, session, harnessVars, now>>

\* after the session check: scrape a fresh token when the scheduling page
\* answered 200, fail without a token, otherwise POST the form
Submit(sess, schedulingStatus, schedulingBody) ==
    LET newToken == IF schedulingStatus = 200
                      THEN ExtractCSRFToken(schedulingBody) ELSE NoToken
        csrfToken == IF newToken # NoToken THEN newToken ELSE local.csrfToken
        updated == IF newToken # NoToken
                     THEN UpdateTokens(sess, [k \in {"csrf"} |-> newToken])
                     ELSE sess
        formData == WithToken(Transform(local.note), csrfToken)
    IN  /\ session' = updated
        /\ IF csrfToken = NoToken
             THEN /\ RejectAttempt(NoCsrfTokenError)
                  /\ local' = [local EXCEPT !.csrfToken = csrfToken,
                                            !.schedulingStatus = schedulingStatus]
                  /\ UNCHANGED <<requests, posts>>
             ELSE /\ posts' = posts + 1
                  /\ requests' = Append(requests,
                       Request("POST", <<DefaultBaseUrl>> \o NoteAddPath,
                               GetCookies(updated), TRUE, formData))
                  /\ local' = [local EXCEPT !.csrfToken = csrfToken,
                                            !.schedulingStatus = schedulingStatus,
                                            !.formData = formData]
                  /\ pc' = "awaitSubmit"
                  /\ UNCHANGED <<rhPc, attempt, lastError, invocations, sleeps,
                                 rhResult>>

\* the scheduling page arrives: merge its cookies; on session loss probe the
\* dashboard, otherwise go on to the submission
SchedulingResponds ==
    /\ pc = "awaitScheduling"
    /\ \E r \in SchedulingResponses :
         LET merged == UpdateCookies(session, r.cookies)
         IN  /\ responses' = Append(responses, r)
             /\ IF SignalsSessionLoss(r.status)
                  THEN /\ session' = merged
                       /\ requests' = Append(requests,
                            Request("GET", <<DefaultBaseUrl>> \o DashboardPath,
                                    GetCookies(merged), TRUE, NoForm))
                       /\ local' = [local EXCEPT !.schedulingStatus = r.status]
                       /\ pc' = "awaitProbe"
                       /\ UNCHANGED <<rhPc, attempt, lastError, invocations,
                                      sleeps, rhResult, posts>>
                  ELSE Submit(merged, r.status, r.body)
    /\ serviceResult' = ServiceOutcome(rhResult')
    /\ UNCHANGED postFrame

\* the dashboard probe arrives: session loss again fails the attempt,
\* otherwise go on to the submission with the stored token
ProbeResponds ==
    /\ pc = "awaitProbe"
    /\ \E r \in ProbeResponses :
         /\ responses' = Append(responses, r)
         /\ IF SignalsSessionLoss(r.status)
              THEN /\ RejectAttempt(SessionExpiredError(local.schedulingStatus, r.status))
                   /\ UNCHANGED <<session, local, requests, posts>>
              ELSE Submit(session, local.schedulingStatus, TextBody(<<>>))
    /\ serviceResult' = ServiceOutcome(rhResult')
    /\ UNCHANGED postFrame

\* the submission answer arrives: merge its cookies and classify its status
SubmitResponds ==
    /\ pc = "awaitSubmit"
    /\ \E r \in SubmitResponses :
         /\ session' = UpdateCookies(session, r.cookies)
         /\ responses' = Append(responses, r)
         /\ IF IsSuccessStatus(r.status)
              THEN /\ rhPc' = "returned"
                   /\ rhResult' = Returned(PostResult(local.note, local.formData, r, now))
                   /\ pc' = "idle"
                   /\ UNCHANGED <<attempt, lastError, invocations, sleeps>>
              ELSE IF r.status = 403
                THEN RejectAttempt(ForbiddenError(r, local.formData, local.csrfToken))
                ELSE RejectAttempt(PostFailedError(r))
    /\ serviceResult' = ServiceOutcome(rhResult')
    /\ UNCHANGED <<postFrame, local, requests, posts>>

\* a request of postVisitNote fails without a response
PostRequestFails ==
    /\ pc \in {"awaitScheduling", "awaitProbe", "awaitSubmit"}
    /\ \E error \in NetworkErrors : RejectAttempt(error)
    /\ serviceResult' = ServiceOutcome(rhResult')
    /\ UNCHANGED <<postFrame, session, local, requests, responses, posts>>

\* the backoff sleep ends: the loop runs fn again, or gives up
PostSleepElapses ==
    /\ pc = "sleeping"
    /\ IF LoopContinues(attempt, config)
         THEN /\ StartAttempt(local.note, invocations)
              /\ UNCHANGED rhResult
         ELSE /\ rhPc' = "thrown"
              /\ rhResult' = Thrown(ExhaustedError(lastError))
              /\ pc' = "idle"
              /\ UNCHANGED <<invocations, local, requests, responses>>
    /\ serviceResult' = ServiceOutcome(rhResult')
    /\ UNCHANGED <<postFrame, session, attempt, lastError, sleeps, posts>>

Next ==
    \/ Tick
    \/ SetSessionCall
    \/ AuthenticateCall
    \/ LoginPageResponds
    \/ MultiloginResponds
    \/ LoginResponds
    \/ DashboardResponds
    \/ AuthRequestFails
    \/ ValidationRejects
    \/ PostVisitNoteCall
    \/ SchedulingResponds
    \/ ProbeResponds
    \/ SubmitResponds
    \/ PostRequestFails
    \/ PostSleepElapses

Spec == Init /\ [][Next]_vars

----------------------------------------------------------------------------
(* The factory harness: AdapterFactory.create and the adapters it returns *)

\* the declared vendor identifiers and one that is not declared
EMRTypes == {"wellsky", "axiscare", "alayacare"}

FactoryInputs == EMRTypes \cup {"epic"}

\* throw new Error(`Unsupported EMR type: ${emrType}`)
UnsupportedError(emrType) ==
    [name |-> "Error", message |-> <<"Unsupported", "EMR", "type:", emrType>>]

\* every adapter is handed the same session manager
NewWellSkyAdapterShared(count) ==
    [id |-> count + 1, emrType |-> "wellsky", baseUrl |-> DefaultBaseUrl,
     httpClient |-> [id |-> count + 2, defaultTimeout |-> 30000],
     sessionManager |-> [id |-> 0, session |-> NullSession],
     retryHandler |-> [id |-> count + 4, config |-> BaseAdapterRetryConfig]]

\* new WellSkyAdapter(), count objects having been constructed before: the
\* adapter and the three objects the BaseAdapter constructor makes
NewWellSkyAdapter(count) ==
    [id |-> count + 1, emrType |-> "wellsky", baseUrl |-> DefaultBaseUrl,
     httpClient |-> [id |-> count + 2, defaultTimeout |-> 30000],
     sessionManager |-> [id |-> count + 3, session |-> NullSession],
     retryHandler |-> [id |-> count + 4, config |-> BaseAdapterRetryConfig]]

InitFactory == IdleRetry /\ IdleSession /\ IdleAdapter /\ IdleAux

factoryFrame == <<retryVars, sessionVars, adapterVars, sessionFile, savedSession,
                  heap, tasks>>

\* AdapterFactory.create(emrType)
FactoryCreate ==
    /\ Len(created) < MaxAdapters
    /\ \E emrType \in FactoryInputs :
         IF emrType = "wellsky"
           THEN /\ created' = Append(created, NewWellSkyAdapter(allocated))
                /\ allocated' = allocated + 4
                /\ lastCall' = [op |-> "create", arg |-> emrType, before |-> created,
                                time |-> now,
                                result |-> Returned(NewWellSkyAdapter(allocated))]
           ELSE /\ lastCall' = [op |-> "create", arg |-> emrType, before |-> created,
                                time |-> now,
                                result |-> Thrown(UnsupportedError(emrType))]
                /\ UNCHANGED <<created, allocated>>
    /\ UNCHANGED factoryFrame

\* sessionManager.setSession(session) on one of the adapters created
AdapterSetSession ==
    /\ \E i \in 1..Len(created), sess \in InstalledSessions :
         /\ created' = [created EXCEPT ![i].sessionManager.session = sess]
         /\ lastCall' = [op |-> "setSession", arg |-> i, before |-> created,
                         time |-> now, result |-> [kind |-> "returned"]]
    /\ UNCHANGED <<allocated, factoryFrame>>

NextFactory ==
    \/ FactoryCreate
    \/ AdapterSetSession

SpecFactory == InitFactory /\ [][NextFactory]_vars

----------------------------------------------------------------------------
(* The persistence harness: one SessionManager, its session file and the clock *)

\* the text keeps the date only, the time of day is lost
ToISOStringDateOnly(date) == [iso |-> 0]

\* Date.prototype.toISOString(): the instant as text, to the millisecond
ToISOString(date) == [iso |-> date]

\* new Date(text) of an ISO-8601 text
ParseDate(text) == text.iso

\* { ...this.session, expiresAt: this.session.expiresAt?.toISOString() } as
\* JSON.stringify writes it: a key whose value is undefined is left out
SessionData(sess) ==
    IF "expiresAt" \in DOMAIN sess
      THEN [type |-> "object", cookies |-> sess.cookies, tokens |-> sess.tokens,
            expiresAt |-> ToISOString(sess.expiresAt)]
      ELSE [type |-> "object", cookies |-> sess.cookies, tokens |-> sess.tokens]

\* JSON.stringify(value): the JSON text of a value
JsonText(value) == [kind |-> "json", value |-> value]

\* file contents that saveSession did not write: '', '{not json', 'null',
\* '{}' and '42'
ForeignTexts ==
    { [kind |-> "empty"], [kind |-> "garbage"], JsonText([type |-> "null"]),
      JsonText([type |-> "object"]), JsonText([type |-> "number"]) }

\* JSON.parse(text)
JsonParse(text) ==
    IF text.kind = "json" THEN Returned(text.value)
    ELSE Thrown([name |-> "SyntaxError"])

\* the session loadSession builds from the parsed data (lines 110-114);
\* reading a property of null throws
ParseSession(data) ==
    IF data.type = "null" THEN Thrown([name |-> "TypeError"])
    ELSE LET cookies == IF "cookies" \in DOMAIN data THEN data.cookies ELSE <<>>
             tokens == IF "tokens" \in DOMAIN data THEN data.tokens ELSE EmptyTokens
         IN  Returned(IF "expiresAt" \in DOMAIN data
                        THEN [cookies |-> cookies, tokens |-> tokens,
                              expiresAt |-> ParseDate(data.expiresAt)]
                        ELSE [cookies |-> cookies, tokens |-> tokens])

\* loadSession(): what it returns (null as NullSession) and the session the
\* manager holds afterwards
LoadSession(file, sess, time) ==
    IF ~file.path \/ ~file.exists
      THEN [value |-> NullSession, session |-> sess]
      ELSE LET parsed == JsonParse(file.text)
               built == IF parsed.kind = "thrown" THEN parsed
                        ELSE ParseSession(parsed.value)
           IN  IF built.kind = "thrown"
                 THEN [value |-> NullSession, session |-> sess]
               ELSE IF IsExpired(built.value, time)
                 THEN [value |-> NullSession, session |-> sess]
               ELSE [value |-> built.value, session |-> built.value]

\* sessions the harness installs: the stored sessions and one whose expiry
\* was reached before the clock started
PersistSessions ==
    InstalledSessions \cup
    { [cookies |-> <<Cookie("sid", "8")>>, tokens |-> [k \in {"csrf"} |-> "tokP"],
       expiresAt |-> 0] }

InitPersist == IdleRetry /\ IdleSession /\ IdleAdapter /\ IdleAux

persistFrame ==
    <<retryVars, merges, mergeBase, mergeMid, mergeA, mergeB, calls, call, pc, local,
      requests, responses, posts, authResult, serviceResult, sessionAtCall, created,
      allocated, heap, tasks>>

\* setSessionFilePath(path)
CallSetSessionFilePath ==
    /\ sessionOps < MaxPersistOps
    /\ ~sessionFile.path
    /\ sessionFile' = [sessionFile EXCEPT !.path = TRUE]
    /\ lastCall' = [op |-> "setSessionFilePath", time |-> now]
    /\ sessionOps' = sessionOps + 1
    /\ UNCHANGED <<session, savedSession, now, persistFrame>>

\* setSession(session)
CallSetSession ==
    /\ sessionOps < MaxPersistOps
    /\ \E sess \in PersistSessions : session' = sess
    /\ lastCall' = [op |-> "setSession", time |-> now]
    /\ sessionOps' = sessionOps + 1
    /\ UNCHANGED <<sessionFile, savedSession, now, persistFrame>>

\* clearSession()
CallClearSession ==
    /\ sessionOps < MaxPersistOps
    /\ session # NullSession
    /\ session' = NullSession
    /\ lastCall' = [op |-> "clearSession", time |-> now]
    /\ sessionOps' = sessionOps + 1
    /\ UNCHANGED <<sessionFile, savedSession, now, persistFrame>>

\* saveSession()
CallSaveSession ==
    /\ sessionOps < MaxPersistOps
    /\ IF session = NullSession \/ ~sessionFile.path
         THEN UNCHANGED <<sessionFile, savedSession>>
         ELSE /\ sessionFile' = [path |-> TRUE, exists |-> TRUE,
                                 text |-> JsonText(SessionData(session))]
              /\ savedSession' = session
    /\ lastCall' = [op |-> "saveSession", time |-> now]
    /\ sessionOps' = sessionOps + 1
    /\ UNCHANGED <<session, now, persistFrame>>

\* the file is written by something other than saveSession
WriteFile ==
    /\ sessionOps < MaxPersistOps
    /\ \E text \in ForeignTexts :
         sessionFile' = [path |-> sessionFile.path, exists |-> TRUE, text |-> text]
    /\ savedSession' = NullSession
    /\ lastCall' = [op |-> "writeFile", time |-> now]
    /\ sessionOps' = sessionOps + 1
    /\ UNCHANGED <<session, now, persistFrame>>

\* loadSession()
CallLoadSession ==
    /\ sessionOps < MaxPersistOps
    /\ LET loaded == LoadSession(sessionFile, session, now)
       IN  /\ session' = loaded.session
           /\ lastCall' = [op |-> "loadSession", before |-> session, time |-> now,
                           result |-> Returned(loaded.value)]
    /\ sessionOps' = sessionOps + 1
    /\ UNCHANGED <<sessionFile, savedSession, now, persistFrame>>

\* isExpired()
CallIsExpired ==
    /\ lastCall' = [op |-> "isExpired", time |-> now,
                    result |-> Returned(IsExpired(session, now))]
    /\ UNCHANGED <<session, sessionOps, sessionFile, savedSession, now, persistFrame>>

\* BaseAdapter.isAuthenticated() of the adapter that owns the manager
CallIsAuthenticated ==
    /\ lastCall' = [op |-> "isAuthenticated", time |-> now,
                    result |-> Returned(IsAuthenticated(session, now))]
    /\ UNCHANGED <<session, sessionOps, sessionFile, savedSession, now, persistFrame>>

NextPersist ==
    \/ CallSetSessionFilePath
    \/ CallSetSession
    \/ CallClearSession
    \/ CallSaveSession
    \/ WriteFile
    \/ CallLoadSession
    \/ CallIsExpired
    \/ CallIsAuthenticated
    \/ Tick

SpecPersist == InitPersist /\ [][NextPersist]_vars

----------------------------------------------------------------------------
(* The transform harness: transform called on one adapter, again and again *)

\* records as callers pass them, the metadata absent or empty, with tags,
\* with a shift, or with both
TransformNotes ==
    LET MetadataChoices ==
            { NoMetadata,
              [k \in {"tags"} |-> "777"],
              [k \in {"tags"} |-> ""],
              [k \in {"shift"} |-> "266477302"],
              [k \in {"shift", "tags"} |-> IF k = "shift" THEN "266477302" ELSE "777"],
              [k \in {"shift", "tags"} |-> IF k = "shift" THEN "266477302" ELSE "888"] }
    IN  { [note EXCEPT !.metadata = m] : note \in VisitNotes, m \in MetadataChoices }

InitTransform == IdleRetry /\ IdleSession /\ IdleAdapter /\ IdleAux

\* adapter.transform(note); the call before it is kept for comparison
CallTransform ==
    /\ \E note \in TransformNotes :
         lastCall' = [op |-> "transform", arg |-> note, before |-> session,
                      time |-> now, result |-> Returned(Transform(note)),
                      previous |-> IF lastCall.op = "transform"
                                     THEN [arg |-> lastCall.arg, result |-> lastCall.result]
                                     ELSE [arg |-> note, result |-> Returned(Transform(note))]]
    /\ UNCHANGED <<session, sessionOps, sessionFile, savedSession, now, persistFrame>>

NextTransform ==
    \/ CallSetSession
    \/ CallTransform
    \/ Tick

SpecTransform == InitTransform /\ [][NextTransform]_vars

----------------------------------------------------------------------------
(* Claims about RetryHandler.execute, checked under SpecRetry *)

RetryDone == rhPc \in {"returned", "thrown"}

\* the verdict of the supplied predicate on an error
Verdict(error) == PredicateVerdict(isRetryableError, error)

\* an error is classified as retryable: by the predicate when one is supplied,
\* by the configured pattern list otherwise
ClassifiedRetryable(error) ==
    IF isRetryableError.present THEN Verdict(error) ELSE ShouldRetry(config, error)

AllInvocationsFailedRetryable ==
    \A i \in 1..Len(outcomes) :
        ~outcomes[i].ok /\ ClassifiedRetryable(outcomes[i].error)

RECURSIVE SumSeq(_)
SumSeq(s) == IF s = <<>> THEN 0 ELSE Head(s) + SumSeq(Tail(s))

\* C1: with maxAttempts = N >= 1 and an operation whose every invocation fails
\* with a retryable failure, execute ends by throwing, after exactly N
\* invocations, the very error the N-th invocation raised.
C1_ExhaustionRaisesLastFailure ==
    (RetryDone /\ config.maxAttempts >= 1 /\ AllInvocationsFailedRetryable)
      => /\ rhPc = "thrown"
         /\ invocations = config.maxAttempts
         /\ Len(outcomes) = config.maxAttempts
         /\ rhResult.error = outcomes[config.maxAttempts].error
         /\ rhResult.error.id = config.maxAttempts

C1_Witness ==
    /\ rhPc = "thrown"
    /\ config.maxAttempts = 3
    /\ config.backoffMs = 100
    /\ AllInvocationsFailedRetryable
    /\ invocations = 3
    /\ rhResult.error.id = 3

\* C2: when the supplied predicate says false on the first failure, the
\* operation has been invoked exactly once, nothing was slept and that first
\* failure is what execute throws.
C2_PredicateFalseOnFirstFailure ==
    ( /\ isRetryableError.present
      /\ Len(outcomes) >= 1
      /\ ~outcomes[1].ok
      /\ ~Verdict(outcomes[1].error) )
      => /\ invocations = 1
         /\ sleeps = <<>>
         /\ rhPc = "thrown"
         /\ rhResult.error = outcomes[1].error

C2_Witness ==
    /\ isRetryableError.present
    /\ config.maxAttempts = 3
    /\ Len(outcomes) = 1
    /\ ~outcomes[1].ok
    /\ ~Verdict(outcomes[1].error)
    /\ rhPc = "thrown"
    /\ invocations = 1

\* C3: with a predicate supplied, the i-th failure, i below maxAttempts, is
\* retried (slept on) exactly when the predicate accepts it, whatever the
\* pattern list; a rejected failure is thrown at once.
C3_PredicateAuthoritative ==
    isRetryableError.present =>
      \A i \in 1..Len(outcomes) :
        (~outcomes[i].ok /\ i < config.maxAttempts) =>
          /\ (Len(sleeps) >= i) <=> Verdict(outcomes[i].error)
          /\ ~Verdict(outcomes[i].error) =>
               /\ rhPc = "thrown"
               /\ rhResult.error = outcomes[i].error
               /\ Len(outcomes) = i

\* the predicate rejects a failure the pattern list matches, and accepts one
\* the pattern list does not match
C3_Witness ==
    /\ isRetryableError.present
    /\ config.maxAttempts = 3
    /\ Len(outcomes) = 2
    /\ ~outcomes[1].ok /\ ~outcomes[2].ok
    /\ Verdict(outcomes[1].error) /\ ~ShouldRetry(config, outcomes[1].error)
    /\ ~Verdict(outcomes[2].error) /\ ShouldRetry(config, outcomes[2].error)
    /\ rhPc = "thrown"
    /\ Len(sleeps) = 1

\* C4: the k-th sleep follows the k-th failure and lasts backoffMs * 2^(k-1);
\* there is no sleep after the failure that reaches maxAttempts; with
\* maxAttempts = 3 and backoffMs = 100 an always-failing retryable operation
\* has slept exactly 100 then 200, 300 in total.
C4_ExponentialBackoff ==
    /\ \A k \in 1..Len(sleeps) :
         /\ k <= Len(outcomes) /\ ~outcomes[k].ok
         /\ k < config.maxAttempts
         /\ sleeps[k] = (IF k = 1 THEN config.backoffMs ELSE 2 * sleeps[k - 1])
    /\ rhPc = "sleeping" => Len(sleeps) = Len(outcomes)
    /\ rhPc = "awaitFn" => Len(sleeps) = Len(outcomes)
    /\ (RetryDone /\ Len(outcomes) >= 1 /\ ~outcomes[Len(outcomes)].ok)
         => Len(sleeps) = Len(outcomes) - 1
    /\ ( /\ RetryDone /\ AllInvocationsFailedRetryable
         /\ config.maxAttempts = 3 /\ config.backoffMs = 100 )
         => (sleeps = <<100, 200>> /\ SumSeq(sleeps) = 300)

C4_Witness ==
    /\ rhPc = "thrown"
    /\ config.maxAttempts = 3 /\ config.backoffMs = 100
    /\ AllInvocationsFailedRetryable
    /\ sleeps = <<100, 200>>
    /\ invocations = 3

----------------------------------------------------------------------------
(* Claims about SessionManager, checked under SpecSession *)

\* the non-empty cookie names of a list
NamesOf(cookies) == { CookieName(cookies[i]) : i \in 1..Len(cookies) } \ {""}

\* the last entry of the list that carries the name
LastNamed(cookies, name) ==
    LET at == { i \in 1..Len(cookies) : CookieName(cookies[i]) = name }
    IN  cookies[CHOOSE i \in at : \A j \in at : j <= i]

\* C5: after updateCookies(A) then updateCookies(B) the cookie list holds
\* exactly one entry for each cookie name of the earlier session, of A and of
\* B and nothing else; a name of B carries B's entry, a name of A that is not
\* in B carries A's entry, a name in neither carries the earlier entry.
C5_MergeAThenB ==
    merges >= 2 =>
      LET result == GetCookies(session)
          base == GetCookies(mergeBase)
          names == NamesOf(base) \cup NamesOf(mergeA) \cup NamesOf(mergeB)
      IN  /\ \A i \in 1..Len(result) : CookieName(result[i]) \in names
          /\ \A n \in names :
               /\ Cardinality({ i \in 1..Len(result) : CookieName(result[i]) = n }) = 1
               /\ LastNamed(result, n) =
                    IF n \in NamesOf(mergeB) THEN LastNamed(mergeB, n)
                    ELSE IF n \in NamesOf(mergeA) THEN LastNamed(mergeA, n)
                    ELSE LastNamed(base, n)

\* A and B conflict on sid, tok occurs in A only, and A was the first call
C5_Witness ==
    /\ merges = 2
    /\ mergeBase = NullSession
    /\ mergeA = <<Cookie("sid", "1"), Cookie("tok", "1"), Cookie("sid", "2")>>
    /\ mergeB = <<Cookie("sid", "1")>>
    /\ GetCookies(session) = <<Cookie("sid", "1"), Cookie("tok", "1")>>

----------------------------------------------------------------------------
(* Claims about WellSkyAdapter, checked under Spec *)

\* the request and the response of the k-th exchange of the call (of the
\* running or last attempt, for postVisitNote)
Answered(k) == k <= Len(responses) /\ k <= Len(requests)

IsRequestTo(req, method, base, path) ==
    req.method = method /\ req.url = <<base>> \o path

\* an Authentication-kind Adapter Error
IsAuthenticationError(error) ==
    IsEMRAdapterError(error) /\ error.type = "AUTHENTICATION"

\* no element of the body is an input named csrfmiddlewaretoken, an input
\* named csrf_token / csrf-token / csrftoken or a meta tag of such a name
\* that carries a value after its name
LacksTokenMarkers(body) ==
    \/ body.type # "string"
    \/ \A i \in 1..Len(body.elems) :
         /\ ~MatchesPattern(body.elems[i], "input", {"csrfmiddlewaretoken"})
         /\ ~MatchesPattern(body.elems[i], "input", GenericTokenNames)
         /\ ~MatchesPattern(body.elems[i], "meta", GenericTokenNames)

\* C6: when the login page that authenticate fetched carries none of the
\* three token markers, authenticate has failed with an Authentication-kind
\* Adapter Error, the login-page GET is the only request it issued and the
\* retry handler was never entered.
C6_NoTokenMarkerFailsAuthentication ==
    (call = "authenticate" /\ Answered(1) /\ LacksTokenMarkers(responses[1].body)) =>
      /\ pc = "idle"
      /\ authResult.kind = "thrown"
      /\ IsAuthenticationError(authResult.error)
      /\ Len(requests) = 1
      /\ IsRequestTo(requests[1], "GET", local.baseUrl, LoginPagePath)
      /\ invocations = 0
      /\ sleeps = <<>>

\* a login form page without any token field was fetched and authenticate failed
C6_Witness ==
    /\ call = "authenticate"
    /\ pc = "idle"
    /\ Len(responses) = 1
    /\ responses[1].body = TextBody(<<Word("Login"), Input("username", "")>>)
    /\ authResult = Thrown(NoCsrfOnLoginPageError)
    /\ Len(requests) = 1

\* the scheduling page and then the dashboard probe were answered, with
\* statuses that both satisfy lossy
BothSignalLoss(lossy(_)) ==
    /\ call = "postVisitNote"
    /\ Answered(2)
    /\ IsRequestTo(requests[1], "GET", DefaultBaseUrl, SchedulingPath)
    /\ IsRequestTo(requests[2], "GET", DefaultBaseUrl, DashboardPath)
    /\ lossy(responses[1].status)
    /\ lossy(responses[2].status)

\* postVisitNote has failed with an Authentication-kind Adapter Error that
\* carries the two statuses, and the attempt sent no submission POST (nor did
\* the call, when this was its first attempt)
FailedWithBothStatuses ==
    /\ pc = "idle"
    /\ rhResult.kind = "thrown"
    /\ IsAuthenticationError(rhResult.error)
    /\ rhResult.error.originalError =
         [schedulingStatus |-> responses[1].status,
          dashboardStatus |-> responses[2].status]
    /\ Len(requests) = 2
    /\ \A i \in 1..Len(requests) : requests[i].method # "POST"
    /\ (invocations = 1 => posts = 0)

ForbiddenOrFound(status) == status \in {403, 302}

ForbiddenOrRedirect(status) == status = 403 \/ (status >= 300 /\ status < 400)

SubmissionAnswered ==
    /\ call = "postVisitNote"
    /\ requests # <<>>
    /\ Len(responses) = Len(requests)
    /\ IsRequestTo(requests[Len(requests)], "POST", DefaultBaseUrl, NoteAddPath)

\* C8: once the submission POST is answered, a status in 200..399 makes
\* postVisitNote return a result with success true, the note's visitId, the
\* form that the POST carried and the body of the response; a 403 makes the
\* attempt fail with an Authentication-kind Adapter Error and any other status
\* with a VendorSpecific-kind one whose original error is the response; a
\* failure the call ends with is that error.
C8_SubmissionClassifiedByStatus ==
    SubmissionAnswered =>
      LET r == responses[Len(responses)]
          sent == requests[Len(requests)].form
      IN  IF r.status >= 200 /\ r.status <= 399
            THEN /\ pc = "idle"
                 /\ rhResult.kind = "returned"
                 /\ rhResult.value.success
                 /\ rhResult.value.visitId = local.note.visitId
                 /\ rhResult.value.request = sent
                 /\ rhResult.value.response = r.body
            ELSE /\ pc \in {"idle", "sleeping"}
                 /\ IsEMRAdapterError(lastError)
                 /\ (pc = "idle" => rhResult = Thrown(lastError))
                 /\ IF r.status = 403
                      THEN lastError.type = "AUTHENTICATION"
                      ELSE /\ lastError.type = "EMR_SPECIFIC"
                           /\ lastError.originalError = r

\* the note of visit 123 was accepted with status 200
C8_Witness ==
    /\ SubmissionAnswered
    /\ responses[Len(responses)].status = 200
    /\ local.note.visitId = "123"
    /\ rhResult.kind = "returned"
    /\ rhResult.value.success
    /\ rhResult.value.visitId = "123"
    /\ rhResult.value.request.csrfmiddlewaretoken = "tokF"

\* there is no session, or the session has reached its expiry
NotLoggedIn ==
    \/ session = NullSession
    \/ ("expiresAt" \in DOMAIN session /\ now >= session.expiresAt)

\* C9: a postVisitNote call made while the adapter holds no session or an
\* expired one ends at once with an Authentication-kind Adapter Error: no
\* request is issued, fn is never invoked, nothing is slept and the session
\* stays as it was.
C9_NotLoggedInRejectedImmediately ==
    [][(call' = "postVisitNote" /\ calls' = calls + 1 /\ NotLoggedIn) =>
         /\ pc' = "idle"
         /\ rhResult'.kind = "thrown"
         /\ IsAuthenticationError(rhResult'.error)
         /\ requests' = <<>>
         /\ responses' = <<>>
         /\ posts' = 0
         /\ invocations' = 0
         /\ rhPc' = "idle"
         /\ sleeps' = <<>>
         /\ session' = session]_vars

\* postVisitNote was rejected on an installed session that had expired
C9_Witness ==
    /\ call = "postVisitNote"
    /\ pc = "idle"
    /\ session # NullSession
    /\ "expiresAt" \in DOMAIN session
    /\ now >= session.expiresAt
    /\ rhResult = Thrown(NotAuthenticatedError)
    /\ requests = <<>>
    /\ invocations = 0

\* a redirect status whose Location contains a post-login path fragment
RedirectsToPostLogin(r) ==
    /\ r.status >= 300
    /\ r.status < 400
    /\ (Includes(r.location, <<"/dashboard">>) \/ Includes(r.location, <<"/live">>))

\* C10: authenticate has returned a session only if its third request was the
\* login POST, sent with redirects disabled, and was answered by a redirect
\* status whose Location contains a post-login fragment; when that POST is
\* answered otherwise, authenticate has failed with an Authentication-kind
\* Adapter Error and has not issued the GET of the redirect target.
C10_SessionOnlyAfterPostLoginRedirect ==
    /\ (call = "authenticate" /\ authResult.kind = "returned") =>
         /\ Answered(3)
         /\ \E time \in 0..now :
              IsRequestTo(requests[3], "POST", local.baseUrl, LoginPostPath(time))
         /\ ~requests[3].followRedirects
         /\ RedirectsToPostLogin(responses[3])
         /\ authResult.value = session
    /\ (call = "authenticate" /\ Answered(3) /\ ~RedirectsToPostLogin(responses[3])) =>
         /\ pc = "idle"
         /\ authResult.kind = "thrown"
         /\ IsAuthenticationError(authResult.error)
         /\ Len(requests) = 3

\* the login POST was answered 302 to the dashboard and a session came back
C10_Witness ==
    /\ call = "authenticate"
    /\ authResult.kind = "returned"
    /\ Len(requests) = 4
    /\ responses[3].status = 302
    /\ responses[3].location = DashboardPath
    /\ IsRequestTo(requests[4], "GET", local.baseUrl, DashboardPath)

----------------------------------------------------------------------------
(* Claims about VisitNoteService, checked under Spec *)

\* visitId, patientId, caregiverId, note or visitDate of the record is empty
HasEmptyRequiredField(note) ==
    \/ note.visitId = ""
    \/ note.patientId = ""
    \/ note.caregiverId = ""
    \/ note.note = <<>>
    \/ note.visitDate = Undefined

\* C11: a VisitNoteService.postVisitNote call on a record with an empty
\* required field ends at validation, logged in or not: the service throws,
\* the adapter's postVisitNote is not called, no request is issued, fn is
\* never invoked, nothing is slept and the session stays as it was.
C11_InvalidRecordFailsBeforeAdapter ==
    [][(/\ calls' = calls + 1
        /\ call' \in {"validateVisitNote", "postVisitNote"}
        /\ HasEmptyRequiredField(local'.note)) =>
         /\ call' = "validateVisitNote"
         /\ pc' = "idle"
         /\ serviceResult'.kind = "thrown"
         /\ rhResult' = NoResult
         /\ rhPc' = "idle"
         /\ invocations' = 0
         /\ sleeps' = <<>>
         /\ requests' = <<>>
         /\ responses' = <<>>
         /\ posts' = 0
         /\ session' = session]_vars

\* a record without a visit date was rejected while the adapter was logged in
C11_Witness ==
    /\ call = "validateVisitNote"
    /\ local.note.visitDate = Undefined
    /\ session # NullSession
    /\ ~("expiresAt" \in DOMAIN session)
    /\ serviceResult.kind = "thrown"
    /\ serviceResult.error.message = <<"visitDate", "is", "required">>
    /\ requests = <<>>
    /\ invocations = 0

\* C12: what the caller gets for a record that validation rejected is an
\* Adapter Error of kind Validation that carries the vendor identifier.
C12_ValidationFailureIsTagged ==
    call = "validateVisitNote" =>
      /\ serviceResult.kind = "thrown"
      /\ IsEMRAdapterError(serviceResult.error)
      /\ serviceResult.error.type = "VALIDATION"
      /\ serviceResult.error.emrType = "wellsky"

\* C13: when the adapter's postVisitNote has ended, the service has ended the
\* same way: a returned result is returned; a thrown Adapter Error is thrown
\* again as it is; any other thrown error is thrown wrapped in an Adapter
\* Error of kind VendorSpecific whose original error is the thrown one.
C13_AdapterErrorsReachCaller ==
    (call = "postVisitNote" /\ pc = "idle") =>
      /\ rhResult.kind \in {"returned", "thrown"}
      /\ rhResult.kind = "returned" => serviceResult = rhResult
      /\ rhResult.kind = "thrown" =>
           /\ serviceResult.kind = "thrown"
           /\ IF IsEMRAdapterError(rhResult.error)
                THEN serviceResult.error = rhResult.error
                ELSE /\ IsEMRAdapterError(serviceResult.error)
                     /\ serviceResult.error.type = "EMR_SPECIFIC"
                     /\ serviceResult.error.emrType = "wellsky"
                     /\ serviceResult.error.originalError = rhResult.error

\* fetch failed on the submission POST: the caller gets the TypeError wrapped
C13_Witness ==
    /\ call = "postVisitNote"
    /\ pc = "idle"
    /\ posts = 1
    /\ rhResult = Thrown(FetchFailedError)
    /\ serviceResult.kind = "thrown"
    /\ serviceResult.error.type = "EMR_SPECIFIC"
    /\ serviceResult.error.originalError = FetchFailedError

----------------------------------------------------------------------------
(* Claims about AdapterFactory, checked under SpecFactory *)

\* the adapter object and its transport, session state and retry policy
ObjectsOf(adapter) ==
    {adapter.id, adapter.httpClient.id, adapter.sessionManager.id,
     adapter.retryHandler.id}

\* C14: the adapters create has returned are made of objects of their own
\* (four distinct objects each, none shared between two adapters); a call with
\* the supported identifier returns one more adapter, whose session state is
\* empty and whose retry policy is the configured one, and leaves the earlier
\* adapters as they were; a call with any other identifier throws, creates
\* nothing and issues no request.
C14_FactoryCreatesFreshAdapters ==
    /\ \A i \in 1..Len(created) :
         /\ Cardinality(ObjectsOf(created[i])) = 4
         /\ \A j \in 1..Len(created) :
              i # j => ObjectsOf(created[i]) \cap ObjectsOf(created[j]) = {}
    /\ lastCall.op = "create" =>
         IF lastCall.arg = "wellsky"
           THEN /\ lastCall.result.kind = "returned"
                /\ created = Append(lastCall.before, lastCall.result.value)
                /\ lastCall.result.value.sessionManager.session = NullSession
                /\ lastCall.result.value.retryHandler.config = BaseAdapterRetryConfig
           ELSE /\ lastCall.result.kind = "thrown"
                /\ created = lastCall.before
                /\ requests = <<>>

\* a second adapter was created while the first one held a session
C14_Witness ==
    /\ Len(created) = 2
    /\ lastCall.op = "create"
    /\ lastCall.arg = "wellsky"
    /\ created[1].sessionManager.session # NullSession
    /\ created[2].sessionManager.session = NullSession
    /\ created[1].sessionManager.id # created[2].sessionManager.id

----------------------------------------------------------------------------
(* Claims about SessionManager's tokens, checked under SpecSession *)

\* C18: after updateTokens(tokens) every incoming key maps to its incoming
\* value, every key of the previous tokens that is not incoming keeps its
\* previous value, no other key appears, and the cookie list is the one held
\* before the call (the empty list where there was no session).
C18_UpdateTokensOverlays ==
    lastCall.op = "updateTokens" =>
        LET incoming == lastCall.arg
            previous == GetTokens(lastCall.before)
        IN  /\ session # NullSession
            /\ DOMAIN session.tokens = (DOMAIN previous) \cup (DOMAIN incoming)
            /\ \A k \in DOMAIN incoming : session.tokens[k] = incoming[k]
            /\ \A k \in (DOMAIN previous) \ (DOMAIN incoming) :
                   session.tokens[k] = previous[k]
            /\ session.cookies = GetCookies(lastCall.before)

\* an update that overwrote one key and left another, with cookies stored
C18_Witness ==
    /\ lastCall.op = "updateTokens"
    /\ lastCall.before # NullSession
    /\ lastCall.before.cookies # <<>>
    /\ \E k \in DOMAIN lastCall.arg :
         k \in DOMAIN lastCall.before.tokens /\ lastCall.before.tokens[k] # lastCall.arg[k]
    /\ \E k \in DOMAIN lastCall.before.tokens : k \notin DOMAIN lastCall.arg

----------------------------------------------------------------------------
(* Claims about the session file and expiry, checked under SpecPersist *)

\* the session carries an expiry and the clock has reached or passed it
ExpiryReached(sess, time) == "expiresAt" \in DOMAIN sess /\ sess.expiresAt <= time

CookieSet(sess) == { sess.cookies[i] : i \in DOMAIN sess.cookies }

\* the session has the cookies, the tokens and the expiry verdict of the other
SameSessionAt(sess, other, time) ==
    /\ sess # NullSession
    /\ CookieSet(sess) = CookieSet(other)
    /\ sess.tokens = other.tokens
    /\ ExpiryReached(sess, time) = ExpiryReached(other, time)

\* loadSession has just read the file that saveSession wrote
LoadedWhatWasSaved == lastCall.op = "loadSession" /\ savedSession # NullSession

NoStoredSession == ~sessionFile.exists \/ sessionFile.text \in ForeignTexts

\* C16: loadSession on an absent, empty, unparsable or malformed file does
\* not throw, returns null and leaves the session held as it was, so that
\* isAuthenticated is not made true by the file.
C16_MalformedFileIsNoSession ==
    (lastCall.op = "loadSession" /\ sessionFile.path /\ NoStoredSession) =>
        /\ lastCall.result.kind = "returned"
        /\ lastCall.result.value = NullSession
        /\ session = lastCall.before
        /\ (lastCall.before = NullSession =>
              ~(session # NullSession /\ ~ExpiryReached(session, lastCall.time)))

\* C19: isExpired() answers false without a session or without an expiry,
\* and otherwise true exactly when the clock has reached or passed the
\* expiry; isAuthenticated() answers true exactly when there is a session
\* and its expiry, if any, has not been reached.
C19_ExpiryVerdict ==
    /\ lastCall.op = "isExpired" =>
         lastCall.result.value =
           (session # NullSession /\ ExpiryReached(session, lastCall.time))
    /\ lastCall.op = "isAuthenticated" =>
         lastCall.result.value =
           (session # NullSession /\ ~ExpiryReached(session, lastCall.time))

\* isExpired() was asked at the very instant of the expiry
C19_Witness ==
    /\ lastCall.op = "isExpired"
    /\ "expiresAt" \in DOMAIN session
    /\ session.expiresAt = lastCall.time
    /\ lastCall.time > 0
    /\ lastCall.result.value = TRUE

----------------------------------------------------------------------------
(* Claims about transform, checked under SpecTransform *)

\* the metadata without its tags
WithoutTags(metadata) == [k \in (DOMAIN metadata) \ {"tags"} |-> metadata[k]]

\* the two records are the same except, possibly, for metadata.tags
DifferOnlyInTags(a, b) ==
    /\ [a EXCEPT !.metadata = NoMetadata] = [b EXCEPT !.metadata = NoMetadata]
    /\ WithoutTags(a.metadata) = WithoutTags(b.metadata)

----------------------------------------------------------------------------
(* Claims about the failures of a submission, checked under Spec *)

\* the error carries the form, as data or in its message
CarriesPayload(error, form) ==
    \/ /\ "requestData" \in DOMAIN error.originalError
       /\ error.originalError.requestData = form
    \/ Includes(error.message, FormWords(form))

\* C20: when postVisitNote ends after the submission POST was answered with
\* a status outside 200..399, the error the caller of the service receives
\* carries the form that the POST sent.
C20_FailureCarriesPayload ==
    (SubmissionAnswered /\ pc = "idle"
       /\ ~(responses[Len(responses)].status \in 200..399)) =>
        /\ serviceResult.kind = "thrown"
        /\ CarriesPayload(serviceResult.error, requests[Len(requests)].form)

----------------------------------------------------------------------------
(* Claims about timeouts, checked under Spec *)

\* C21: when every attempt of postVisitNote ended with the request timeout
\* (here: before any submission POST, where a timeout is the only failure
\* that is tried again), the caller of VisitNoteService.postVisitNote
\* receives an Adapter Error of kind Network whose message states the
\* timeout value.
C21_TimeoutReachesCallerAsNetworkError ==
    (call = "postVisitNote" /\ pc = "idle" /\ posts = 0
       /\ attempt = config.maxAttempts /\ rhResult = Thrown(TimeoutError)) =>
        /\ serviceResult.kind = "thrown"
        /\ IsEMRAdapterError(serviceResult.error)
        /\ serviceResult.error.type = "NETWORK"
        /\ Includes(serviceResult.error.message, <<"30000ms">>)

----------------------------------------------------------------------------
(* Claims about the login sequence, checked under Spec *)

\* the first call made on the adapter was authenticate, and it has failed
FirstAuthenticateFailed ==
    /\ calls = 1
    /\ call = "authenticate"
    /\ pc = "idle"
    /\ authResult.kind = "thrown"

\* C22: after authenticate has failed on a newly constructed adapter the
\* adapter is not logged in (it holds no session, or an expired one), and a
\* postVisitNote that follows is rejected without any request.
C22_FailedAuthenticateLeavesLoggedOut ==
    /\ [](FirstAuthenticateFailed => NotLoggedIn)
    /\ [][(FirstAuthenticateFailed /\ call' = "postVisitNote") =>
            /\ requests' = <<>>
            /\ pc' = "idle"
            /\ rhResult'.kind = "thrown"]_vars

----------------------------------------------------------------------------
(* Claims about SessionManager's cookies, checked under SpecSession *)

\* C23: after any sequence of updateCookies calls on a new SessionManager,
\* the first call included, the cookie list holds at most one entry per
\* cookie name: it is no longer than the number of distinct names in it.
C23_OneEntryPerName ==
    (merges > 0 /\ lastCall.op = "updateCookies") =>
        Len(GetCookies(session))
          <= Cardinality({ CookieName(GetCookies(session)[i]) :
                             i \in 1..Len(GetCookies(session)) })

----------------------------------------------------------------------------
(* Claims about the steps of authenticate, checked under Spec *)

\* the primary login was answered by a redirect back to the login page
RedirectedToLoginPage ==
    /\ call = "authenticate"
    /\ Answered(3)
    /\ responses[3].status = 302
    /\ responses[3].location # <<>>
    /\ Head(responses[3].location) = "/login"

\* C24: when the primary login is answered by a redirect back to the login
\* page, even one whose Location names the post-login path in its query,
\* authenticate fails with an Authentication-kind Adapter Error, does not
\* request the redirect target and installs no session as its result.
C24_RedirectToLoginPageFails ==
    RedirectedToLoginPage =>
        /\ pc = "idle"
        /\ Len(requests) = 3
        /\ authResult.kind = "thrown"
        /\ IsAuthenticationError(authResult.error)

\* the pre-login answer is a success/errors payload that reports failure
PreLoginReportsFailure ==
    /\ call = "authenticate"
    /\ Answered(2)
    /\ responses[2].body.type = "object"
    /\ (~responses[2].body.success \/ responses[2].body.errors > 0)

\* C25: when the pre-login answer is a success/errors payload that reports
\* failure, whatever its status, authenticate fails with an
\* Authentication-kind Adapter Error and the primary login POST is not sent.
C25_PreLoginFailureStopsLogin ==
    PreLoginReportsFailure =>
        /\ pc = "idle"
        /\ Len(requests) = 2
        /\ authResult.kind = "thrown"
        /\ IsAuthenticationError(authResult.error)

\* the cookies set by the first k responses of the call, in order
RECURSIVE CookiesSetBy(_)
CookiesSetBy(k) ==
    IF k = 0 THEN <<>> ELSE CookiesSetBy(k - 1) \o responses[k].cookies

\* the by-name merge of a list, as a set: of the entries with a name, the
\* last one of each name
LastPerName(list) ==
    { list[i] : i \in { n \in 1..Len(list) :
                          /\ CookieName(list[n]) # ""
                          /\ \A m \in (n + 1)..Len(list) :
                               CookieName(list[m]) # CookieName(list[n]) } }

\* the list is the by-name merge of the other: one entry per name, the last
CarriesMergeOf(cookies, list) ==
    /\ { cookies[i] : i \in 1..Len(cookies) } = LastPerName(list)
    /\ Len(cookies) = Cardinality(LastPerName(list))

\* the k-th request of authenticate is the one the sequence prescribes
IsLoginStep(k) ==
    CASE k = 1 -> IsRequestTo(requests[1], "GET", local.baseUrl, LoginPagePath)
      [] k = 2 -> IsRequestTo(requests[2], "POST", local.baseUrl, MultiloginPath)
      [] k = 3 -> /\ requests[3].method = "POST"
                  /\ \E time \in 0..now :
                       requests[3].url = <<local.baseUrl>> \o LoginPostPath(time)
      [] k = 4 -> /\ requests[4].method = "GET"
                  /\ requests[4].url \in { responses[3].location,
                                           <<local.baseUrl>> \o responses[3].location }

\* C26: authenticate, called on an adapter that holds no session, issues at
\* most four requests, in the order login-page GET, pre-login POST, primary
\* login POST, redirect-target GET, each only when every earlier one has
\* been answered, and each carrying the by-name merge of the cookies set by
\* the responses received before it.
C26_LoginRequestsInOrderWithMergedCookies ==
    (call = "authenticate" /\ sessionAtCall = NullSession) =>
        /\ Len(requests) <= 4
        /\ Len(responses) <= Len(requests)
        /\ Len(requests) <= Len(responses) + 1
        /\ \A k \in 1..Len(requests) :
             /\ IsLoginStep(k)
             /\ CarriesMergeOf(requests[k].cookies, CookiesSetBy(k - 1))

\* authenticate has returned a session
LoginReturned ==
    /\ call = "authenticate"
    /\ pc = "idle"
    /\ authResult.kind = "returned"

\* the part of C27 that does not concern the cookies: there is a session,
\* it has no expiry that has been reached, and its csrf token is the one
\* scraped from the login page
LoggedInWithScrapedToken ==
    /\ Answered(4)
    /\ ~NotLoggedIn
    /\ "csrf" \in DOMAIN session.tokens
    /\ session.tokens["csrf"] = ExtractCSRFToken(responses[1].body)
    /\ session.tokens["csrf"] # NoToken

\* C27 as stated: after authenticate succeeds the adapter is logged in with
\* the scraped token, and the session cookies are the by-name merge of the
\* cookies set by the four responses.
C27_SessionHoldsCookiesOfTheFourResponses ==
    LoginReturned =>
        /\ LoggedInWithScrapedToken
        /\ CarriesMergeOf(session.cookies, CookiesSetBy(4))

\* C27: after authenticate succeeds the adapter is logged in with the
\* scraped token, and the session cookies are the by-name merge (last write
\* wins) of the cookies the session held when authenticate was called
\* followed by the cookies set by the four responses.
C27_SessionHoldsMergedCookies ==
    LoginReturned =>
        /\ LoggedInWithScrapedToken
        /\ CarriesMergeOf(session.cookies,
                          (IF sessionAtCall = NullSession THEN <<>>
                           ELSE sessionAtCall.cookies) \o CookiesSetBy(4))

\* a login on an adapter that held a session: one of its cookies was
\* overwritten by a response
C27_Witness ==
    /\ LoginReturned
    /\ sessionAtCall # NullSession
    /\ Cookie("sid", "9") \in { sessionAtCall.cookies[i] : i \in 1..Len(sessionAtCall.cookies) }
    /\ Cookie("sid", "3") \in { session.cookies[i] : i \in 1..Len(session.cookies) }
    /\ Len(session.cookies) = 2

----------------------------------------------------------------------------
(* Claims about the token of a submission, checked under Spec *)

\* the csrf token the session holds, "" when it holds none
CsrfOf(sess) ==
    IF sess # NullSession /\ "csrf" \in DOMAIN sess.tokens
      THEN sess.tokens["csrf"] ELSE ""

\* the submission POST has just been sent with the token
PostSentWith(token, reqs, at) ==
    /\ at = "awaitSubmit"
    /\ IsRequestTo(reqs[Len(reqs)], "POST", DefaultBaseUrl, NoteAddPath)
    /\ reqs[Len(reqs)].form.csrfmiddlewaretoken = token

\* C28: when the scheduling page answers 200 with a token in its body, that
\* token becomes the session's csrf token and is the token of the
\* submission POST sent next; when it answers 200 without a token, or
\* answers 403 or 302 and the probe then passes, and the session holds a
\* token, the submission POST is sent with that token and the session's
\* token stays as it was.
C28_FreshTokenReplacesStoredOne ==
    [][(call = "postVisitNote" /\ pc \in {"awaitScheduling", "awaitProbe"}
          /\ Len(responses') = Len(responses) + 1) =>
         LET r == responses'[Len(responses')]
             fresh == IF pc = "awaitScheduling" /\ r.status = 200
                        THEN ExtractCSRFToken(r.body) ELSE NoToken
             passed == \/ pc = "awaitScheduling" /\ r.status = 200
                       \/ pc = "awaitProbe" /\ r.status \notin {403, 302}
         IN  /\ fresh # NoToken =>
                  /\ CsrfOf(session') = fresh
                  /\ PostSentWith(fresh, requests', pc')
             /\ (fresh = NoToken /\ passed /\ CsrfOf(session) # "") =>
                  /\ CsrfOf(session') = CsrfOf(session)
                  /\ PostSentWith(CsrfOf(session), requests', pc')]_vars

\* the token tokS was stored; the scheduling page brought tokF, which is now
\* stored and on its way in the submission POST
C28_Witness ==
    /\ call = "postVisitNote"
    /\ pc = "awaitSubmit"
    /\ CsrfOf(sessionAtCall) = "tokS"
    /\ responses[1].status = 200
    /\ CsrfOf(session) = "tokF"
    /\ PostSentWith("tokF", requests, pc)

\* the scheduling page, or the probe after it, has let the attempt pass, no
\* token was scraped and the session holds none
NoUsableToken ==
    /\ call = "postVisitNote"
    /\ responses # <<>>
    /\ IsRequestTo(requests[1], "GET", DefaultBaseUrl, SchedulingPath)
    /\ \/ responses[1].status \notin {403, 302}
       \/ Len(responses) >= 2 /\ responses[2].status \notin {403, 302}
    /\ (responses[1].status # 200 \/ LacksTokenMarkers(responses[1].body))
    /\ CsrfOf(session) = ""

\* C29: when no token was scraped and none is stored, postVisitNote fails
\* at once with an Authentication-kind Adapter Error that reaches the
\* caller: the attempt sends no submission POST, nothing more is requested
\* and no retry is scheduled.
C29_NoTokenFailsWithoutRetry ==
    NoUsableToken =>
        /\ pc = "idle"
        /\ rhPc = "thrown"
        /\ rhResult.kind = "thrown"
        /\ IsAuthenticationError(rhResult.error)
        /\ serviceResult = rhResult
        /\ Len(requests) = Len(responses)
        /\ \A i \in 1..Len(requests) : requests[i].method # "POST"
        /\ (invocations = 1 => posts = 0 /\ sleeps = <<>>)

\* the first attempt got the scheduling page without a token, on a session
\* without one: one request, no sleep, no POST
C29_Witness ==
    /\ NoUsableToken
    /\ responses[1].status = 200
    /\ invocations = 1
    /\ Len(requests) = 1
    /\ posts = 0
    /\ sleeps = <<>>
    /\ rhResult = Thrown(NoCsrfTokenError)

----------------------------------------------------------------------------
(* Claims about retries of a submission, checked under Spec *)

\* C30: when the submission POST is answered with a status in 500..599 the
\* attempt is taken for a retryable failure: postVisitNote ends with it only
\* when the attempts are used up, and otherwise sleeps and runs the sequence
\* again.
C30_ServerFailureIsRetried ==
    (SubmissionAnswered /\ responses[Len(responses)].status \in 500..599) =>
        /\ pc \in {"idle", "sleeping"}
        /\ pc = "idle" => attempt = config.maxAttempts

\* C31: an Authentication-kind failure raised inside postVisitNote (session
\* loss, no usable token, 403 on the submission) ends the call: it is what
\* the call throws, no sleep follows it and the sequence is not run again,
\* whatever the response body, the status text or the note contain.
C31_AuthenticationFailureNotRetried ==
    (call = "postVisitNote" /\ invocations >= 1 /\ IsAuthenticationError(lastError)) =>
        /\ pc = "idle"
        /\ rhPc = "thrown"
        /\ rhResult = Thrown(lastError)

----------------------------------------------------------------------------
(* Claims: timeouts inside postVisitNote *)

\* a request of postVisitNote ends in the transport's timeout
TimesOut ==
    /\ call = "postVisitNote"
    /\ pc \in {"awaitScheduling", "awaitProbe", "awaitSubmit"}
    /\ lastError' = TimeoutError
    /\ attempt' = attempt + 1

\* the attempt that starts after a sleep: the stored token is read and the
\* scheduling page is fetched, nothing else is in flight
RunsAgain ==
    /\ pc' = "awaitScheduling"
    /\ invocations' = invocations + 1
    /\ Len(requests') = 1
    /\ IsRequestTo(requests'[1], "GET", DefaultBaseUrl, SchedulingPath)
    /\ local'.csrfToken = StoredCsrf(session)
    /\ rhResult' = NoResult

\* C32: a timeout of any request of postVisitNote is retried: before the
\* third failure the call sleeps and then runs the whole sequence again from
\* the fetch of the scheduling page, the third failure is thrown as it is;
\* the body runs at most 3 times and a result, once returned, stays the one
\* result of the call.
C32_TimeoutRerunsTheSequence ==
    /\ [](call = "postVisitNote" => invocations <= 3)
    /\ [][/\ TimesOut =>
               IF attempt' < 3
                 THEN /\ pc' = "sleeping"
                      /\ Len(sleeps') = Len(sleeps) + 1
                      /\ rhResult' = NoResult
                 ELSE /\ pc' = "idle"
                      /\ rhResult' = Thrown(TimeoutError)
          /\ (call = "postVisitNote" /\ pc = "sleeping" /\ lastError = TimeoutError)
                 => RunsAgain
          /\ (call = "postVisitNote" /\ rhResult.kind = "returned" /\ calls' = calls)
                 => rhResult' = rhResult]_vars

\* the first attempt timed out, the second one succeeded
C32_Witness ==
    /\ call = "postVisitNote"
    /\ lastError = TimeoutError
    /\ invocations = 2
    /\ sleeps = <<1000>>
    /\ rhResult.kind = "returned"
    /\ rhResult.value.success

----------------------------------------------------------------------------
(* Claims: the pattern list of RetryHandler, checked under SpecRetry *)

\* a text contains at least one of the configured patterns
ContainsPattern(text) ==
    \E k \in 1..Len(config.retryableErrors) :
        Includes(text, config.retryableErrors[k])

\* without a predicate, the i-th failure, i below maxAttempts, is retried
\* exactly when the text taken from it matches, and is otherwise thrown at
\* once with no sleep
PatternsDecide(textOf(_)) ==
    ~isRetryableError.present =>
      \A i \in 1..Len(outcomes) :
        (~outcomes[i].ok /\ i < config.maxAttempts) =>
          /\ (Len(sleeps) >= i) <=> ContainsPattern(textOf(outcomes[i].error))
          /\ ~ContainsPattern(textOf(outcomes[i].error)) =>
               /\ rhPc = "thrown"
               /\ rhResult.error = outcomes[i].error
               /\ Len(outcomes) = i
               /\ Len(sleeps) = i - 1

MessageOf(error) == error.message

\* C33 (as stated): with no predicate, a failure before the attempt limit is
\* retried if and only if its message contains a configured pattern; a
\* failure matching none is thrown at once without a sleep.
C33_RetriedIffMessageMatches == PatternsDecide(MessageOf)

\* C33 (amended): the text that is tested is the failure's message, or the
\* failure's string form when it has no message.
C33_RetriedIffTestedTextMatches == PatternsDecide(ErrorMessage)

\* no predicate: a failure without a message was retried on the pattern its
\* string form contains, the next failure matched nothing and was thrown
C33_Witness ==
    /\ ~isRetryableError.present
    /\ config.maxAttempts = 3
    /\ Len(outcomes) = 2
    /\ ~outcomes[1].ok /\ outcomes[1].error.message = <<>>
    /\ ~outcomes[2].ok /\ ~ContainsPattern(ErrorMessage(outcomes[2].error))
    /\ Len(sleeps) = 1
    /\ rhPc = "thrown"
    /\ rhResult.error = outcomes[2].error

----------------------------------------------------------------------------
(* Claims: what a call leaves of the session it found *)

\* C34: authenticate and postVisitNote only merge into the session: the
\* tokens stored under names other than csrf and the expiry that the session
\* held when the call started are still in the session when the call is over.
C34_CallsOnlyMergeIntoSession ==
    ( /\ call \in {"authenticate", "postVisitNote"}
      /\ pc = "idle"
      /\ sessionAtCall # NullSession )
      => /\ session # NullSession
         /\ \A name \in DOMAIN sessionAtCall.tokens \ {"csrf"} :
              /\ name \in DOMAIN session.tokens
              /\ session.tokens[name] = sessionAtCall.tokens[name]
         /\ "expiresAt" \in DOMAIN sessionAtCall =>
              /\ "expiresAt" \in DOMAIN session
              /\ session.expiresAt = sessionAtCall.expiresAt

\* C35: once postVisitNote has failed with the session-loss Authentication
\* error (scheduling page and dashboard probe both answered 403 or 302), the
\* adapter is no longer logged in: isAuthenticated() is false, so that the
\* next postVisitNote is rejected without a request.
C35_SessionLossLogsOut ==
    ( /\ BothSignalLoss(ForbiddenOrFound)
      /\ pc = "idle"
      /\ rhResult.kind = "thrown"
      /\ IsAuthenticationError(rhResult.error) )
      => /\ NotLoggedIn
         /\ ~IsAuthenticated(session, now)

----------------------------------------------------------------------------
(* Claims: the base URL of a submission *)

\* C38: when authenticate was called with a base URL given in the
\* credentials, the requests of the postVisitNote call that follows on the
\* same adapter are addressed to that base URL.
C38_SubmissionUsesBaseUrlOfLogin ==
    [][( /\ call = "authenticate"
         /\ pc = "idle"
         /\ local.credentials.baseUrl # ""
         /\ call' = "postVisitNote"
         /\ calls' = calls + 1 )
         => \A i \in 1..Len(requests') :
               Head(requests'[i].url) = local.credentials.baseUrl]_vars

----------------------------------------------------------------------------
(* Claims: what execute and postVisitNote end with *)

\* C39: whatever the configuration, maxAttempts <= 0 included, execute has
\* invoked the operation at least once when it ends, and it ends either with
\* the value of a successful invocation or with a failure that one of the
\* invocations raised.
C39_InvokedAtLeastOnce ==
    RetryDone =>
      /\ invocations >= 1
      /\ Len(outcomes) >= 1
      /\ rhResult.kind = "returned" => outcomes[Len(outcomes)].ok
      /\ rhResult.kind = "thrown" =>
           \E i \in 1..Len(outcomes) :
               ~outcomes[i].ok /\ outcomes[i].error = rhResult.error

\* C40: a postVisitNote call that returned success: true has sent exactly one
\* submission POST.
C40_SuccessAfterOnePost ==
    ( /\ call = "postVisitNote"
      /\ rhResult.kind = "returned"
      /\ rhResult.value.success )
      => posts = 1

----------------------------------------------------------------------------
(* The two adapters of the post-note command: VisitNoteService and          *)
(* AuthenticationService each make their own, and the command hands the     *)
(* session one returned to the other. Session objects have an identity: an  *)
(* adapter's manager holds a reference, and its writes go to the object.    *)

\* calls made on the two adapters in one run
MaxSharedCalls == 3

\* what the vendor's answers to one call set as cookies, and the token they
\* show, if any
SharedAnswers ==
    [cookies : {<<Cookie("sid", "1")>>, <<Cookie("tok", "1")>>},
     token : {"tokA", NoToken}]

\* this.session of the i-th adapter's manager: null or a reference
Held(adapters, i) == adapters[i].sessionManager.session

\* getSession() of the i-th adapter's manager, as a value
SessionOf(adapters, objects, i) ==
    IF Held(adapters, i) = NullSession THEN NullSession
    ELSE objects[Held(adapters, i).ref]

\* updateCookies(cookies) on the i-th adapter's manager: this.session.cookies
\* is assigned on the object held; without one a new object is made
CookiesUpdated(i, cookies) ==
    IF Held(created, i) # NullSession
      THEN [heap |-> [heap EXCEPT ![Held(created, i).ref] = UpdateCookies(@, cookies)],
            held |-> Held(created, i),
            allocated |-> allocated]
      ELSE [heap |-> heap @@ ((allocated + 1) :> UpdateCookies(NullSession, cookies)),
            held |-> [ref |-> allocated + 1],
            allocated |-> allocated + 1]

InitShared ==
    /\ IdleRetry /\ IdleSession /\ IdleAdapter
    /\ lastCall = [op |-> "none"]
    /\ sessionFile = [path |-> FALSE, exists |-> FALSE]
    /\ savedSession = NullSession
    /\ created = <<NewWellSkyAdapter(0), NewWellSkyAdapter(4)>>
    /\ allocated = 8
    /\ heap = <<>>
    /\ tasks = <<>>

sharedFrame == <<retryVars, sessionVars, now, call, pc, local, requests, responses,
                 posts, authResult, serviceResult, sessionAtCall, sessionFile,
                 savedSession, tasks>>

\* authenticate(credentials) on one adapter: the cookies of the answers are
\* merged, and with a token scraped a new session object is installed and
\* returned
SharedAuthenticate ==
    /\ calls < MaxSharedCalls
    /\ calls' = calls + 1
    /\ \E i \in 1..Len(created), answer \in SharedAnswers :
         LET merged == CookiesUpdated(i, answer.cookies)
             id == merged.allocated + 1
             installed == [cookies |-> GetCookies(merged.heap[merged.held.ref]),
                           tokens |-> [k \in {"csrf"} |-> answer.token]]
         IN  IF answer.token = NoToken
               THEN /\ heap' = merged.heap
                    /\ created' = [created EXCEPT ![i].sessionManager.session = merged.held]
                    /\ allocated' = merged.allocated
                    /\ lastCall' = [op |-> "authenticate", arg |-> i,
                                    result |-> Thrown(AuthenticateCatch(NoCsrfOnLoginPageError))]
               ELSE /\ heap' = merged.heap @@ (id :> installed)
                    /\ created' = [created EXCEPT ![i].sessionManager.session = [ref |-> id]]
                    /\ allocated' = id
                    /\ lastCall' = [op |-> "authenticate", arg |-> i,
                                    result |-> Returned([ref |-> id])]
    /\ UNCHANGED sharedFrame

\* (adapter as any).sessionManager.setSession(session): the session is the
\* object the other service's authenticate has just returned, or one that
\* loadSession has read from the file
SharedSetSession ==
    /\ calls < MaxSharedCalls
    /\ calls' = calls + 1
    /\ \E i \in 1..Len(created) :
         \/ /\ lastCall.op = "authenticate"
            /\ lastCall.result.kind = "returned"
            /\ created' = [created EXCEPT
                             ![i].sessionManager.session = lastCall.result.value]
            /\ UNCHANGED <<heap, allocated>>
         \/ \E sess \in InstalledSessions :
              /\ heap' = heap @@ ((allocated + 1) :> sess)
              /\ allocated' = allocated + 1
              /\ created' = [created EXCEPT
                               ![i].sessionManager.session = [ref |-> allocated + 1]]
         /\ lastCall' = [op |-> "setSession", arg |-> i, result |-> NoResult]
    /\ UNCHANGED sharedFrame

\* postVisitNote(note) on one adapter: rejected when not authenticated,
\* otherwise the cookies of the answers are merged and a token scraped from
\* the scheduling page is stored
SharedPostVisitNote ==
    /\ calls < MaxSharedCalls
    /\ calls' = calls + 1
    /\ \E i \in 1..Len(created) :
         IF ~IsAuthenticated(SessionOf(created, heap, i), now)
           THEN /\ lastCall' = [op |-> "postVisitNote", arg |-> i,
                                result |-> Thrown(NotAuthenticatedError)]
                /\ UNCHANGED <<heap, created, allocated>>
           ELSE \E answer \in SharedAnswers :
                  LET merged == CookiesUpdated(i, answer.cookies)
                      ref == merged.held.ref
                  IN  /\ heap' = IF answer.token = NoToken THEN merged.heap
                                 ELSE [merged.heap EXCEPT ![ref] =
                                         UpdateTokens(@, [k \in {"csrf"} |-> answer.token])]
                      /\ lastCall' = [op |-> "postVisitNote", arg |-> i,
                                      result |-> NoResult]
                      /\ UNCHANGED <<created, allocated>>
    /\ UNCHANGED sharedFrame

NextShared ==
    \/ SharedAuthenticate
    \/ SharedSetSession
    \/ SharedPostVisitNote

SpecShared == InitShared /\ [][NextShared]_vars

----------------------------------------------------------------------------
(* Claims: adapters and the sessions of other adapters, under SpecShared *)

\* C36: an authenticate or postVisitNote call on one adapter leaves the
\* session (cookies and tokens) of every other adapter as it was, also after
\* a session returned by one adapter's authenticate was installed into
\* another adapter with setSession.
C36_OtherAdaptersUntouched ==
    [][\A j \in 1..Len(created) :
         ( /\ calls' = calls + 1
           /\ lastCall'.op \in {"authenticate", "postVisitNote"}
           /\ lastCall'.arg # j )
           => SessionOf(created', heap', j) = SessionOf(created, heap, j)]_vars

----------------------------------------------------------------------------
(* Two postVisitNote calls on one adapter that may overlap: each call runs  *)
(* between its awaits without interruption, and at an await the other call  *)
(* may run. The session is the one object both calls read and write.        *)

Callers == {1, 2}

\* the token the scheduling page shows to a call, and the cookie it sets
CallerToken(c) == IF c = 1 THEN "tok1" ELSE "tok2"
CallerCookie(c) == Cookie("trace", ToString(c))

SchedulingAnswers(c) ==
    { Response(200, OK, <<>>,
               TextBody(<<Word("Scheduling"),
                          Input("csrfmiddlewaretoken", CallerToken(c))>>),
               <<CallerCookie(c)>>),
      Response(200, OK, <<>>, TextBody(<<Word("Scheduling")>>), <<>>),
      Response(403, Forbidden, <<>>, TextBody(<<Word("denied")>>), <<>>) }

ProbeAnswers ==
    { Response(200, OK, <<>>, TextBody(<<Word("Dashboard")>>), <<>>),
      Response(403, Forbidden, <<>>, TextBody(<<Word("denied")>>), <<>>) }

SubmitAnswers ==
    { Response(200, OK, <<>>, TextBody(<<Word("saved")>>), <<>>),
      Response(500, <<"Internal", "Server", "Error">>, <<>>,
               TextBody(<<Word("oops")>>), <<>>) }

\* the note both calls post
TaskNote == CHOOSE note \in VisitNotes : note.visitId = "123"

NoPost == [method |-> "none"]

\* a call not made yet. Besides its position and locals a call records the
\* session it found, the cookies its own responses have set, the session as
\* it was right after the call last scraped a token, the submission POST it
\* sent last with the cookie history that POST stood on, and whether the
\* other call was in progress when it started
IdleTask ==
    [pc |-> "idle", attempt |-> 0, lastError |-> Undefined, csrfToken |-> NoToken,
     schedulingStatus |-> 0, atStart |-> NullSession, received |-> <<>>,
     seen |-> NullSession, post |-> NoPost, basis |-> <<>>, result |-> NoResult,
     overlapped |-> FALSE]

InitConcurrent ==
    /\ config = BaseAdapterRetryConfig
    /\ isRetryableError = HandleRetry
    /\ rhPc = "idle"
    /\ attempt = 0
    /\ lastError = Undefined
    /\ invocations = 0
    /\ outcomes = <<>>
    /\ sleeps = <<>>
    /\ rhResult = NoResult
    /\ session = [cookies |-> <<Cookie("sid", "9")>>,
                  tokens |-> [k \in {"csrf"} |-> "tokS"]]
    /\ sessionOps = 0
    /\ merges = 0
    /\ mergeBase = NullSession
    /\ mergeMid = NullSession
    /\ mergeA = <<>>
    /\ mergeB = <<>>
    /\ IdleAdapter
    /\ lastCall = [op |-> "none"]
    /\ sessionFile = [path |-> FALSE, exists |-> FALSE]
    /\ savedSession = NullSession
    /\ created = <<>>
    /\ allocated = 0
    /\ heap = <<>>
    /\ tasks = [c \in Callers |-> IdleTask]

concurrentFrame == <<retryVars, sessionOps, merges, mergeBase, mergeMid, mergeA,
                     mergeB, adapterVars, lastCall, sessionFile, savedSession,
                     created, allocated, heap>>

\* fn starts (again): the stored token is read, the scheduling page fetched
Begun(t, sess) ==
    [t EXCEPT !.pc = "awaitScheduling",
              !.csrfToken = StoredCsrf(sess),
              !.schedulingStatus = 0]

\* fn rejected with error: the catch block of execute decides
Rejected(t, error) ==
    LET c == CatchOutcome(config, isRetryableError, t.attempt, error)
    IN  CASE c.next = "break" ->
               [t EXCEPT !.pc = "done", !.attempt = c.attempt, !.lastError = error,
                         !.result = Thrown(ExhaustedError(error))]
          [] c.next = "throw" ->
               [t EXCEPT !.pc = "done", !.attempt = c.attempt, !.lastError = error,
                         !.result = Thrown(error)]
          [] c.next = "sleep" ->
               [t EXCEPT !.pc = "sleeping", !.attempt = c.attempt,
                         !.lastError = error]

\* after the session check: scrape and store a fresh token when the page
\* answered 200, fail without a token, otherwise POST the form with the
\* session's cookies; no await lies between these steps
Submitted(t, sess, status, pageBody) ==
    LET newToken == IF status = 200 THEN ExtractCSRFToken(pageBody) ELSE NoToken
        csrfToken == IF newToken # NoToken THEN newToken ELSE t.csrfToken
        updated == IF newToken # NoToken
                     THEN UpdateTokens(sess, [k \in {"csrf"} |-> newToken])
                     ELSE sess
        scraped == [t EXCEPT !.csrfToken = csrfToken,
                             !.seen = IF newToken # NoToken THEN updated ELSE @]
    IN  [session |-> updated,
         task |-> IF csrfToken = NoToken
                    THEN Rejected(scraped, NoCsrfTokenError)
                    ELSE [scraped EXCEPT
                            !.pc = "awaitSubmit",
                            !.basis = GetCookies(t.atStart) \o t.received,
                            !.post = Request("POST", <<DefaultBaseUrl>> \o NoteAddPath,
                                             GetCookies(updated), TRUE,
                                             WithToken(Transform(TaskNote), csrfToken))]]

\* postVisitNote(note) is called while the other call may be in progress
ConcurrentCall ==
    /\ \E c \in Callers :
         /\ tasks[c].pc = "idle"
         /\ LET found == [IdleTask EXCEPT
                            !.atStart = session,
                            !.overlapped = \E d \in Callers \ {c} :
                                              tasks[d].pc \notin {"idle", "done"}]
            IN  tasks' = [tasks EXCEPT ![c] =
                            IF ~IsAuthenticated(session, now)
                              THEN [found EXCEPT !.pc = "done",
                                                 !.result = Thrown(NotAuthenticatedError)]
                              ELSE Begun(found, session)]
    /\ UNCHANGED <<session, concurrentFrame>>

\* the scheduling page of a call arrives
TaskSchedulingResponds ==
    /\ \E c \in Callers :
         /\ tasks[c].pc = "awaitScheduling"
         /\ \E r \in SchedulingAnswers(c) :
              LET merged == UpdateCookies(session, r.cookies)
                  t == [tasks[c] EXCEPT !.received = @ \o r.cookies,
                                        !.schedulingStatus = r.status]
                  s == Submitted(t, merged, r.status, r.body)
              IN  IF SignalsSessionLoss(r.status)
                    THEN /\ session' = merged
                         /\ tasks' = [tasks EXCEPT ![c] = [t EXCEPT !.pc = "awaitProbe"]]
                    ELSE /\ session' = s.session
                         /\ tasks' = [tasks EXCEPT ![c] = s.task]
    /\ UNCHANGED concurrentFrame

\* the dashboard probe of a call arrives
TaskProbeResponds ==
    /\ \E c \in Callers :
         /\ tasks[c].pc = "awaitProbe"
         /\ \E r \in ProbeAnswers :
              LET t == tasks[c]
                  s == Submitted(t, session, t.schedulingStatus, TextBody(<<>>))
              IN  IF SignalsSessionLoss(r.status)
                    THEN /\ session' = session
                         /\ tasks' = [tasks EXCEPT ![c] =
                              Rejected(t, SessionExpiredError(t.schedulingStatus, r.status))]
                    ELSE /\ session' = s.session
                         /\ tasks' = [tasks EXCEPT ![c] = s.task]
    /\ UNCHANGED concurrentFrame

\* the answer to the submission of a call arrives
TaskSubmitResponds ==
    /\ \E c \in Callers :
         /\ tasks[c].pc = "awaitSubmit"
         /\ \E r \in SubmitAnswers :
              LET t == [tasks[c] EXCEPT !.received = @ \o r.cookies]
              IN  /\ session' = UpdateCookies(session, r.cookies)
                  /\ tasks' = [tasks EXCEPT ![c] =
                       IF IsSuccessStatus(r.status)
                         THEN [t EXCEPT !.pc = "done",
                                        !.result = Returned(PostResult(TaskNote,
                                                       t.post.form, r, now))]
                       ELSE IF r.status = 403
                         THEN Rejected(t, ForbiddenError(r, t.post.form, t.csrfToken))
                         ELSE Rejected(t, PostFailedError(r))]
    /\ UNCHANGED concurrentFrame

\* a request of a call fails without a response
TaskRequestFails ==
    /\ \E c \in Callers, error \in NetworkErrors :
         /\ tasks[c].pc \in {"awaitScheduling", "awaitProbe", "awaitSubmit"}
         /\ tasks' = [tasks EXCEPT ![c] = Rejected(tasks[c], error)]
    /\ UNCHANGED <<session, concurrentFrame>>

\* the backoff sleep of a call ends
TaskSleepElapses ==
    /\ \E c \in Callers :
         /\ tasks[c].pc = "sleeping"
         /\ tasks' = [tasks EXCEPT ![c] =
              IF LoopContinues(tasks[c].attempt, config)
                THEN Begun(tasks[c], session)
                ELSE [tasks[c] EXCEPT !.pc = "done",
                                      !.result = Thrown(ExhaustedError(tasks[c].lastError))]]
    /\ UNCHANGED <<session, concurrentFrame>>

NextConcurrent ==
    \/ ConcurrentCall
    \/ TaskSchedulingResponds
    \/ TaskProbeResponds
    \/ TaskSubmitResponds
    \/ TaskRequestFails
    \/ TaskSleepElapses

SpecConcurrent == InitConcurrent /\ [][NextConcurrent]_vars

----------------------------------------------------------------------------
(* Claims: overlapping postVisitNote calls, under SpecConcurrent *)

\* neither call started while the other was in progress
Serialized == \A c \in Callers : ~tasks[c].overlapped

\* the submission POST a call sent last stands on the call's own history:
\* its cookies are the by-name merge of the cookies the call found and those
\* its own responses set, its token is the one shown to the call or the one
\* stored when the call started
StandsOnOwnHistory(c) ==
    /\ CarriesMergeOf(tasks[c].post.cookies, tasks[c].basis)
    /\ tasks[c].post.form.csrfmiddlewaretoken
         \in {CallerToken(c), StoredCsrf(tasks[c].atStart)}

\* the submission POST of call c carries the token and the cookie that call d
\* wrote into the session after c had scraped and stored its own token
CarriesLaterWritesOf(c, d) ==
    /\ tasks[c].post # NoPost
    /\ tasks[c].pc = "awaitSubmit"
    /\ tasks[c].seen # NullSession
    /\ StoredCsrf(tasks[c].seen) = CallerToken(c)
    /\ \A i \in 1..Len(tasks[c].seen.cookies) : tasks[c].seen.cookies[i] # CallerCookie(d)
    /\ tasks[c].post.form.csrfmiddlewaretoken = CallerToken(d)
    /\ \E i \in 1..Len(tasks[c].post.cookies) : tasks[c].post.cookies[i] = CallerCookie(d)

\* C37: when the postVisitNote calls on one adapter are serialized, the
\* submission POST of a call carries only what the call found when it started
\* and what its own responses wrote; with overlapping calls a POST is
\* reachable that carries cookies and the stored token written by the other
\* call after the sending call had scraped its own token.
C37_SerializedCallsDoNotMix ==
    Serialized =>
      \A c \in Callers : tasks[c].post # NoPost => StandsOnOwnHistory(c)

\* overlapping calls: call 1 sends its POST with the token and the cookie
\* call 2 wrote after call 1 had scraped its own token
C37_Witness ==
    /\ tasks # <<>>
    /\ ~Serialized
    /\ CarriesLaterWritesOf(1, 2)
    /\ ~StandsOnOwnHistory(1)

====
